---- MODULE Spec2Model ----
(***************************************************************************)
(* HypeHedge: the peer-to-peer prediction market exchange.                 *)
(*                                                                         *)
(* The model follows src/src/exchange.ts (the matching engine) and the     *)
(* database layer of src/unnamed/part_005 (createOrder, cancelOrder,       *)
(* executeMarket, resolveMarket) over the tables of src/unnamed/part_006.  *)
(*                                                                         *)
(* Amounts (balance, locked, price, escrowAmount, holdings) are JavaScript *)
(* numbers stored in `real` columns.  They are modelled as exact rationals *)
(* <<numerator, denominator>> in lowest terms, so rounding of the binary   *)
(* floating point representation is outside the model.                     *)
(***************************************************************************)
EXTENDS Integers, Sequences, FiniteSets, TLC

(***************************************************************************)
(* Exact arithmetic on amounts.                                            *)
(***************************************************************************)
RAbs(n) == IF n < 0 THEN -n ELSE n

RECURSIVE Gcd(_, _)
Gcd(a, b) == IF b = 0 THEN a ELSE Gcd(b, a % b)

Rat(n, d) ==
    LET s == IF d < 0 THEN -1 ELSE 1
        g == Gcd(RAbs(n), RAbs(d))
    IN  <<(s * n) \div g, (s * d) \div g>>

Num(n) == <<n, 1>>

Zero == Num(0)

One == Num(1)

RAdd(a, b) == Rat(a[1] * b[2] + b[1] * a[2], a[2] * b[2])

\* the sign kept
RNegDropped(a) == a

RNeg(a) == <<-a[1], a[2]>>

RSub(a, b) == RAdd(a, RNeg(b))

RMul(a, b) == Rat(a[1] * b[1], a[2] * b[2])

RDiv(a, b) == Rat(a[1] * b[2], a[2] * b[1])

RLt(a, b) == a[1] * b[2] < b[1] * a[2]

RLe(a, b) == a[1] * b[2] <= b[1] * a[2]

\* Math.max left out: the second operand as it is
RMaxSecond(a, b) == b

RMax(a, b) == IF RLt(a, b) THEN b ELSE a

(***************************************************************************)
(* The universe of the model.                                              *)
(***************************************************************************)
Users == {"alice", "bob"}

Markets == {"m1", "m2"}

\* the outcomes rows of a market, in the order createMarket inserted them
OutcomeIds(m) == IF m = "m1" THEN <<"Yes", "No">> ELSE <<"A", "B", "C">>

SeqRange(s) == {s[i] : i \in 1..Len(s)}

Directions == {"buy", "sell"}

\* quantities and prices an order is submitted with (the command layer
\* admits integers 1..1000 and prices 0.01..0.99)
Qtys == {5, 10}

Prices == {Rat(3, 10), Rat(7, 10)}

\* The (direction, quantity, price) an order is submitted with.  The two-outcome
\* market m1 takes every combination; the three-outcome market m2, where the
\* baskets with surplus outcomes are minted, takes the buy orders of 10.
OrderInputs(m) ==
    IF m = "m1" THEN Directions \X Qtys \X Prices
    ELSE {"buy"} \X {q \in Qtys : \A r \in Qtys : r <= q} \X Prices

\* The outcome ids an order is submitted with: the market's own and, for the
\* invalid case, one outcome of another market.
OutcomeInputs(m) ==
    SeqRange(OutcomeIds(m)) \cup {OutcomeIds(CHOOSE x \in Markets : x # m)[1]}

\* every user's balance before the first order
InitBalance == 100

\* createOrder admissions in one behaviour
MaxOrders == 3

VARIABLES
    balance,          \* users.balance
    locked,           \* users.locked
    status,           \* markets.status
    winningOutcomeId, \* markets.winningOutcomeId ("" while null)
    orders,           \* the orders table, a set of rows
    positions,        \* the positions table, a set of rows
    executions,       \* the executions table, in insertion order
    nOrders,          \* number of order rows inserted so far
    last,             \* the latest call and what it returned
    txn,              \* the transactions in progress, when they overlap
    pre,              \* the tables as they were when the first of them began
    reactions,        \* the reactions table, a set of rows
    sequence,         \* exchange.ts: let sequence
    now,              \* Date.now() - EPOCH, in milliseconds
    issued,           \* the first ids generateId returned, in order
    semaphore,        \* backfill: the Semaphore of the run
    channels          \* backfill: where the task of each channel stands

vars == <<balance, locked, status, winningOutcomeId, orders, positions,
          executions, nOrders, last, txn, pre, reactions, sequence, now, issued,
          semaphore, channels>>

\* what the exchange transactions neither read nor write
apart == <<reactions, sequence, now, issued, semaphore, channels>>

\* the channels a backfill run finds
Channels == {"c1", "c2", "c3", "c4"}

\* before any reaction, id or backfill run
ApartInit ==
    /\ reactions = {}
    /\ sequence = 0
    /\ now = 0
    /\ issued = <<>>
    /\ semaphore = [concurrency |-> 0, running |-> 0, queue |-> <<>>]
    /\ channels = [c \in Channels |-> "none"]

\* the two transactions that may overlap, and one that has not begun
Txns == {"t1", "t2"}

Idle == [pc |-> "idle"]

\* the rows of the tables that orders and fills change
Db ==
    [balance |-> balance, locked |-> locked, orders |-> orders,
     positions |-> positions, executions |-> executions]

Init ==
    /\ balance = [u \in Users |-> Num(InitBalance)]
    /\ locked = [u \in Users |-> Zero]
    /\ status = [m \in Markets |-> "open"]
    /\ winningOutcomeId = [m \in Markets |-> ""]
    /\ orders = {}
    /\ positions = {}
    /\ executions = <<>>
    /\ nOrders = 0
    /\ last = [op |-> "init", result |-> "ok"]
    /\ txn = [t \in Txns |-> Idle]
    /\ pre = Db
    /\ ApartInit

(***************************************************************************)
(* exchange.ts: calculateEscrow                                            *)
(***************************************************************************)
\* the escrow of a sell taken on the whole quantity, whatever is owned
calculateEscrowNaked(direction, quantity, price, currentlyOwned) ==
    IF direction = "buy"
    THEN RMul(Num(quantity), price)
    ELSE RMul(Num(quantity), RSub(One, price))

calculateEscrow(direction, quantity, price, currentlyOwned) ==
    IF direction = "buy"
    THEN RMul(Num(quantity), price)
    ELSE LET shortQuantity == RMax(Zero, RSub(Num(quantity), currentlyOwned))
         IN  RMul(shortQuantity, RSub(One, price))

\* generateId() as used for an order row: an opaque id no resting order has.
\* The id names the (user, market) it was made for and the lowest index free
\* among the rows present.
FreshOrderId(rows, u, m) ==
    LET used == {r.id[3] : r \in {x \in rows : x.id[1] = u /\ x.id[2] = m}}
    IN  <<u, m, CHOOSE k \in 1..(Cardinality(used) + 1) :
                   /\ k \notin used
                   /\ \A j \in 1..(k - 1) : j \in used>>

\* holdings[outcomeId] ?? 0 of a holdings record
Held(holdings, o) == IF o \in DOMAIN holdings THEN holdings[o] ELSE Zero

\* the holdings of the (userId, marketId) position row, {} when there is none
HoldingsOf(pos, u, m) ==
    LET rows == {p \in pos : p.userId = u /\ p.marketId = m}
    IN  IF rows = {} THEN <<>> ELSE (CHOOSE p \in rows : TRUE).holdings

(***************************************************************************)
(* exchange.ts: the matching engine.  The book is the sequence ofm of      *)
(* OrderForMatching rows in the order the orders query returned them; the  *)
(* per-outcome arrays hold indices into it.                                *)
(***************************************************************************)
NoMatch == [found |-> FALSE]

OrdersForMatching(rows) ==
    [i \in 1..Len(rows) |-> [remainingQuantity |-> rows[i].quantity] @@ rows[i]]

\* the comparator ascending whatever the side
PriceBeforeAscending(ofm, i, j, desc) ==
    \/ RLt(ofm[i].price, ofm[j].price)
    \/ ofm[i].price = ofm[j].price /\ i < j

\* Array.prototype.sort is stable: equal prices keep the order of the array,
\* which is the order of the rows.  desc = TRUE is (a, b) => b.price - a.price.
PriceBefore(ofm, i, j, desc) ==
    \/ IF desc THEN RLt(ofm[j].price, ofm[i].price)
               ELSE RLt(ofm[i].price, ofm[j].price)
    \/ ofm[i].price = ofm[j].price /\ i < j

RECURSIVE SortByPrice(_, _, _)
SortByPrice(ofm, S, desc) ==
    IF S = {} THEN <<>>
    ELSE LET b == CHOOSE i \in S : \A j \in S \ {i} : PriceBefore(ofm, i, j, desc)
         IN  <<b>> \o SortByPrice(ofm, S \ {b}, desc)

\* buyOrdersByOutcome.get(o) / sellOrdersByOutcome.get(o) after the in-place
\* sort; filled orders are filtered out of the arrays as soon as they reach 0
BookSide(ofm, o, dir) ==
    SortByPrice(ofm,
                {i \in 1..Len(ofm) : /\ ofm[i].outcomeId = o
                                     /\ ofm[i].direction = dir
                                     /\ ofm[i].remainingQuantity > 0},
                dir = "buy")

\* outcomesWithBids in the order of outcomeIds: the best bid of every outcome
\* that has a buy order left
OutcomesWithBids(ofm, outcomeIds) ==
    [k \in {j \in 1..Len(outcomeIds) : BookSide(ofm, outcomeIds[j], "buy") # <<>>} |->
        [outcomeId |-> outcomeIds[k],
         bestOrder |-> Head(BookSide(ofm, outcomeIds[k], "buy")),
         price |-> ofm[Head(BookSide(ofm, outcomeIds[k], "buy"))].price]]

\* outcomesWithBids.sort((a, b) => b.price - a.price), a stable sort
RECURSIVE SortBids(_, _)
SortBids(withBids, S) ==
    IF S = {} THEN <<>>
    ELSE <<withBids[CHOOSE k \in S : \A j \in S \ {k} :
                        \/ RLt(withBids[j].price, withBids[k].price)
                        \/ withBids[j].price = withBids[k].price /\ k < j]>>
         \o SortBids(withBids,
                     S \ {CHOOSE k \in S : \A j \in S \ {k} :
                              \/ RLt(withBids[j].price, withBids[k].price)
                              \/ withBids[j].price = withBids[k].price /\ k < j})

\* the total taken to be 1
SumPricesOne(sel) == One

RECURSIVE SumPrices(_)
SumPrices(sel) ==
    IF sel = <<>> THEN Zero ELSE RAdd(Head(sel).price, SumPrices(Tail(sel)))

\* the loop without its break: every outcome with a bid is selected
GreedySelectAll(bids, selected) == selected \o bids

\* the greedy loop: push outcomes until totalPrice >= 1.0
RECURSIVE GreedySelect(_, _)
GreedySelect(bids, selected) ==
    IF bids = <<>> THEN selected
    ELSE LET sel == Append(selected, Head(bids))
         IN  IF RLe(One, SumPrices(sel)) THEN sel
             ELSE GreedySelect(Tail(bids), sel)

RECURSIVE MinRemaining(_, _)
MinRemaining(ofm, sel) ==
    IF Len(sel) = 1 THEN ofm[sel[1].bestOrder].remainingQuantity
    ELSE LET r == MinRemaining(ofm, Tail(sel))
             h == ofm[sel[1].bestOrder].remainingQuantity
         IN  IF h < r THEN h ELSE r

\* the selection accepted without the totalPrice < 1.0 check
SyntheticMatchOfUnderpriced(ofm, selected) ==
    IF selected = <<>> THEN NoMatch
    ELSE IF MinRemaining(ofm, selected) = 0 THEN NoMatch
    ELSE [found |-> TRUE,
          matchQuantity |-> MinRemaining(ofm, selected),
          selected |-> selected,
          totalPrice |-> SumPrices(selected)]

\* findSyntheticMatch from the greedy selection on: totalPrice < 1.0 is no
\* match, maxQuantity is the least remaining quantity of the selected bids
SyntheticMatchOf(ofm, selected) ==
    IF selected = <<>> THEN NoMatch
    ELSE IF RLt(SumPrices(selected), One) THEN NoMatch
    ELSE IF MinRemaining(ofm, selected) = 0 THEN NoMatch
    ELSE [found |-> TRUE,
          matchQuantity |-> MinRemaining(ofm, selected),
          selected |-> selected,
          totalPrice |-> SumPrices(selected)]

SelectBids(withBids) == GreedySelect(SortBids(withBids, DOMAIN withBids), <<>>)

findSyntheticMatch(ofm, outcomeIds) ==
    SyntheticMatchOf(ofm, SelectBids(OutcomesWithBids(ofm, outcomeIds)))

findDirectMatch(ofm, buyOrders, sellOrders) ==
    IF buyOrders = <<>> \/ sellOrders = <<>> THEN NoMatch
    ELSE LET bestBuy == ofm[Head(buyOrders)]
             bestSell == ofm[Head(sellOrders)]
             matchQuantity ==
                 IF bestBuy.remainingQuantity < bestSell.remainingQuantity
                 THEN bestBuy.remainingQuantity ELSE bestSell.remainingQuantity
         IN  IF RLt(bestBuy.price, bestSell.price) THEN NoMatch
             ELSE IF matchQuantity = 0 THEN NoMatch
             ELSE [found |-> TRUE,
                   buyOrder |-> Head(buyOrders),
                   sellOrder |-> Head(sellOrders),
                   matchQuantity |-> matchQuantity,
                   matchPrice |-> RDiv(RAdd(bestBuy.price, bestSell.price), Num(2))]

\* updateUserBalance on userBalanceChanges, a Map kept in insertion order
updateUserBalance(changes, userId, balanceDelta, lockedDelta) ==
    IF \E k \in 1..Len(changes) : changes[k].userId = userId
    THEN [k \in 1..Len(changes) |->
             IF changes[k].userId = userId
             THEN [userId |-> userId,
                   balanceDelta |-> RAdd(changes[k].balanceDelta, balanceDelta),
                   lockedDelta |-> RAdd(changes[k].lockedDelta, lockedDelta)]
             ELSE changes[k]]
    ELSE Append(changes, [userId |-> userId, balanceDelta |-> balanceDelta,
                          lockedDelta |-> lockedDelta])

\* the loop over nonParticipatingOutcomeIds left out
SurplusUpdatesDropped(userId, nonParticipating, surplusQuantity) == <<>>

\* the surplus position updates of one participant
RECURSIVE SurplusUpdates(_, _, _)
SurplusUpdates(userId, nonParticipating, surplusQuantity) ==
    IF nonParticipating = <<>> THEN <<>>
    ELSE (IF RLt(Zero, surplusQuantity)
          THEN <<[userId |-> userId, outcomeId |-> Head(nonParticipating),
                  quantityDelta |-> surplusQuantity]>>
          ELSE <<>>)
         \o SurplusUpdates(userId, Tail(nonParticipating), surplusQuantity)

\* executeMatching, lines 355-452: one synthetic match, participant by participant
RECURSIVE SyntheticParticipants(_, _, _, _, _)
SyntheticParticipants(ms, sel, matchQuantity, totalContribution, nonParticipating) ==
    IF sel = <<>> THEN ms
    ELSE LET i == Head(sel).bestOrder
             order == ms.ofm[i]
             fillCost == RMul(Num(matchQuantity), order.price)
             escrowUsed == RMul(Num(matchQuantity), order.price)
             contributionShare == RDiv(order.price, totalContribution)
             surplusQuantity == RMul(Num(matchQuantity), contributionShare)
             next ==
                 [ofm |-> [ms.ofm EXCEPT ![i].remainingQuantity = @ - matchQuantity],
                  changes |-> updateUserBalance(ms.changes, order.userId,
                                                RNeg(fillCost), RNeg(escrowUsed)),
                  positionUpdates |->
                      Append(ms.positionUpdates,
                             [userId |-> order.userId,
                              outcomeId |-> Head(sel).outcomeId,
                              quantityDelta |-> Num(matchQuantity)])
                      \o SurplusUpdates(order.userId, nonParticipating, surplusQuantity),
                  executions |-> ms.executions,
                  parties |-> Append(ms.parties,
                                     [userId |-> order.userId,
                                      outcomeId |-> Head(sel).outcomeId,
                                      quantity |-> Num(matchQuantity),
                                      effectivePrice |-> order.price])]
         IN  SyntheticParticipants(next, Tail(sel), matchQuantity,
                                   totalContribution, nonParticipating)

ApplySynthetic(ms, marketId, outcomeIds, syn) ==
    LET participating == {syn.selected[k].outcomeId : k \in 1..Len(syn.selected)}
        nonParticipating == SelectSeq(outcomeIds, LAMBDA id : id \notin participating)
        totalContribution == SumPrices(syn.selected)
        done == SyntheticParticipants([ms EXCEPT !.parties = <<>>], syn.selected,
                                      syn.matchQuantity, totalContribution,
                                      nonParticipating)
    IN  [done EXCEPT !.executions =
             Append(@, [marketId |-> marketId,
                        participants |-> done.parties]),
                     !.parties = <<>>]

\* executeMatching, lines 461-558: one direct match
ApplyDirect(ms, marketId, outcomeId, dm) ==
    LET buyOrder == ms.ofm[dm.buyOrder]
        sellOrder == ms.ofm[dm.sellOrder]
        matchQuantity == dm.matchQuantity
        buyerCost == RMul(Num(matchQuantity), dm.matchPrice)
        buyerEscrowUsed == RMul(Rat(matchQuantity, buyOrder.quantity),
                                buyOrder.escrowAmount)
        buyerRefund == RSub(buyerEscrowUsed, buyerCost)
        sellerProceeds == RMul(Num(matchQuantity), dm.matchPrice)
        sellerEscrowUsed == RMul(Rat(matchQuantity, sellOrder.quantity),
                                 sellOrder.escrowAmount)
        c1 == updateUserBalance(ms.changes, buyOrder.userId,
                                RAdd(RNeg(buyerCost), buyerRefund),
                                RNeg(buyerEscrowUsed))
        c2 == updateUserBalance(c1, sellOrder.userId,
                                RAdd(sellerProceeds, sellerEscrowUsed),
                                RNeg(sellerEscrowUsed))
    IN  [ofm |-> [ms.ofm EXCEPT
                     ![dm.buyOrder].remainingQuantity = @ - matchQuantity,
                     ![dm.sellOrder].remainingQuantity = @ - matchQuantity],
         changes |-> c2,
         positionUpdates |->
             ms.positionUpdates \o
             <<[userId |-> buyOrder.userId, outcomeId |-> outcomeId,
                quantityDelta |-> Num(matchQuantity)],
               [userId |-> sellOrder.userId, outcomeId |-> outcomeId,
                quantityDelta |-> Num(-matchQuantity)]>>,
         executions |->
             Append(ms.executions,
                    [marketId |-> marketId,
                     participants |->
                        <<[userId |-> buyOrder.userId, outcomeId |-> outcomeId,
                           quantity |-> Num(matchQuantity),
                           effectivePrice |-> dm.matchPrice],
                          [userId |-> sellOrder.userId, outcomeId |-> outcomeId,
                           quantity |-> Num(-matchQuantity),
                           effectivePrice |-> dm.matchPrice]>>]),
         parties |-> <<>>]

\* the for loop over outcomeIds that stops at the first direct match
RECURSIVE FirstDirect(_, _, _)
FirstDirect(ofm, outcomeIds, k) ==
    IF k > Len(outcomeIds) THEN NoMatch
    ELSE LET dm == findDirectMatch(ofm, BookSide(ofm, outcomeIds[k], "buy"),
                                   BookSide(ofm, outcomeIds[k], "sell"))
         IN  IF dm.found THEN [outcomeId |-> outcomeIds[k]] @@ dm
             ELSE FirstDirect(ofm, outcomeIds, k + 1)

\* the while (matchFound) loop
\* one pass of the loop body: the synthetic attempt, then the direct attempt
\* on the book the synthetic match left; matchFound is set by either
SyntheticStep(ms, marketId, outcomeIds, syn) ==
    [matchFound |-> syn.found] @@
    (IF syn.found THEN ApplySynthetic(ms, marketId, outcomeIds, syn) ELSE ms)

DirectStep(ms, marketId, dm) ==
    IF dm.found
    THEN [matchFound |-> TRUE] @@ ApplyDirect(ms, marketId, dm.outcomeId, dm)
    ELSE ms

DirectAttempt(ms, marketId, outcomeIds) ==
    DirectStep(ms, marketId, FirstDirect(ms.ofm, outcomeIds, 1))

LoopBody(ms, marketId, outcomeIds) ==
    DirectAttempt(SyntheticStep(ms, marketId, outcomeIds,
                                findSyntheticMatch(ms.ofm, outcomeIds)),
                  marketId, outcomeIds)

\* the while (matchFound) loop
RECURSIVE MatchLoop(_, _, _)
MatchLoop(ms, marketId, outcomeIds) ==
    IF ms.matchFound
    THEN MatchLoop(LoopBody(ms, marketId, outcomeIds), marketId, outcomeIds)
    ELSE ms

\* the orderUpdates loop: every order whose remainingQuantity changed
OrderUpdatesOf(changed) ==
    [k \in 1..Len(changed) |-> [orderId |-> changed[k].id,
                                newQuantity |-> changed[k].remainingQuantity]]

MatchingResult(ms) ==
    [executions |-> ms.executions,
     orderUpdates |-> OrderUpdatesOf(SelectSeq(ms.ofm, LAMBDA o :
                                         o.remainingQuantity # o.quantity)),
     positionUpdates |-> ms.positionUpdates,
     balanceUpdates |-> ms.changes]

executeMatching(rows, outcomeIds, marketId) ==
    MatchingResult(MatchLoop([ofm |-> OrdersForMatching(rows), changes |-> <<>>,
                              positionUpdates |-> <<>>, executions |-> <<>>,
                              parties |-> <<>>, matchFound |-> TRUE],
                             marketId, outcomeIds))

(***************************************************************************)
(* database: createOrder, one transaction                                  *)
(***************************************************************************)
\* the checks of createOrder without step 6, the balance check
CreateOrderResultUnchecked(u, m, o, escrowAmount) ==
    IF status[m] # "open" THEN "Market not open"
    ELSE IF o \notin SeqRange(OutcomeIds(m)) THEN "Invalid outcome"
    ELSE IF \E r \in orders : r.userId = u /\ r.marketId = m
         THEN "You already have an order in this market"
    ELSE "ok"

CreateOrderResult(u, m, o, escrowAmount) ==
    IF status[m] # "open" THEN "Market not open"
    ELSE IF o \notin SeqRange(OutcomeIds(m)) THEN "Invalid outcome"
    ELSE IF \E r \in orders : r.userId = u /\ r.marketId = m
         THEN "You already have an order in this market"
    ELSE IF RLt(RSub(balance[u], locked[u]), escrowAmount)
         THEN "Insufficient balance"
    ELSE "ok"

CreateOrder(u, m, o, d, q, p) ==
    LET currentlyOwned == Held(HoldingsOf(positions, u, m), o)
        escrowAmount == calculateEscrow(d, q, p, currentlyOwned)
        res == CreateOrderResult(u, m, o, escrowAmount)
    IN  /\ nOrders < MaxOrders
        /\ last' = [op |-> "createOrder", result |-> res]
        /\ IF res = "ok"
           THEN /\ locked' = [locked EXCEPT ![u] = RAdd(@, escrowAmount)]
                /\ orders' = orders \cup
                       {[id |-> FreshOrderId(orders, u, m), userId |-> u, marketId |-> m,
                         outcomeId |-> o, direction |-> d, quantity |-> q,
                         price |-> p, escrowAmount |-> escrowAmount]}
                /\ nOrders' = nOrders + 1
           ELSE UNCHANGED <<locked, orders, nOrders>>
        /\ UNCHANGED <<balance, status, winningOutcomeId, positions, executions>>

(***************************************************************************)
(* database: cancelOrder, one transaction                                  *)
(***************************************************************************)
\* cancelOrder with its step 3 left out: the escrow unlocked, the row kept
CancelOrderRowKept(u, m) ==
    /\ \E order \in {r \in orders : r.userId = u /\ r.marketId = m} :
           locked' = [locked EXCEPT ![u] = RSub(@, order.escrowAmount)]
    /\ last' = [op |-> "cancelOrder", result |-> "ok"]
    /\ UNCHANGED <<balance, status, winningOutcomeId, orders, positions,
                   executions, nOrders>>

CancelOrder(u, m) ==
    LET found == {r \in orders : r.userId = u /\ r.marketId = m}
    IN  IF found = {}
        THEN /\ last' = [op |-> "cancelOrder", result |-> "No order found"]
             /\ UNCHANGED <<balance, locked, status, winningOutcomeId, orders,
                            positions, executions, nOrders>>
        ELSE \E order \in found :
             /\ locked' = [locked EXCEPT ![u] = RSub(@, order.escrowAmount)]
             /\ orders' = orders \ {order}
             /\ last' = [op |-> "cancelOrder", result |-> "ok"]
             /\ UNCHANGED <<balance, status, winningOutcomeId, positions,
                            executions, nOrders>>

\* the order row is deleted and nothing is unlocked
AfterCancelOrderLockedKept(db, u, m) ==
    [db EXCEPT !.orders = {r \in @ : ~(r.userId = u /\ r.marketId = m)}]

\* the tables db after cancelOrder(u, m): unchanged when no order is found,
\* else the escrow of the order unlocked and the order deleted
AfterCancelOrder(db, u, m) ==
    IF \A r \in db.orders : ~(r.userId = u /\ r.marketId = m) THEN db
    ELSE [db EXCEPT
             !.locked[u] =
                 RSub(@, (CHOOSE r \in db.orders :
                              r.userId = u /\ r.marketId = m).escrowAmount),
             !.orders = @ \ {CHOOSE r \in db.orders :
                                 r.userId = u /\ r.marketId = m}]

(***************************************************************************)
(* database: executeMarket, one transaction                                *)
(***************************************************************************)
\* every order in which a query without ORDER BY can return the rows
RowOrders(S) ==
    {s \in [1..Cardinality(S) -> S] : \A i, j \in 1..Cardinality(S) :
                                          i # j => s[i] # s[j]}

RECURSIVE SumDeltas(_, _, _)
SumDeltas(updates, u, o) ==
    IF updates = <<>> THEN Zero
    ELSE RAdd(IF Head(updates).userId = u /\ Head(updates).outcomeId = o
              THEN Head(updates).quantityDelta ELSE Zero,
              SumDeltas(Tail(updates), u, o))

\* step 6: balance = balance + balanceDelta, locked = locked + lockedDelta
ApplyBalanceUpdates(bal, field, updates) ==
    [u \in DOMAIN bal |->
        IF \E k \in 1..Len(updates) : updates[k].userId = u
        THEN LET k == CHOOSE j \in 1..Len(updates) : updates[j].userId = u
             IN  RAdd(bal[u], updates[k][field])
        ELSE bal[u]]

\* step 7: the holdings written for user u, from the row read in the transaction
NewHoldings(pos, m, updates, u) ==
    LET old == HoldingsOf(pos, u, m)
        touched == {updates[k].outcomeId :
                       k \in {j \in 1..Len(updates) : updates[j].userId = u}}
        value(o) == RAdd(Held(old, o), SumDeltas(updates, u, o))
        keys == {o \in (DOMAIN old) \cup touched :
                     ~(o \in touched /\ value(o) = Zero)}
    IN  [o \in keys |-> IF o \in touched THEN value(o) ELSE old[o]]

ApplyPositionUpdates(pos, m, updates) ==
    LET touchedUsers == {updates[k].userId : k \in 1..Len(updates)}
    IN  {p \in pos : ~(p.marketId = m /\ p.userId \in touchedUsers)}
        \cup {[userId |-> u, marketId |-> m,
               holdings |-> NewHoldings(pos, m, updates, u)] : u \in touchedUsers}

\* step 8: delete the order when newQuantity is 0, else set its quantity
ApplyOrderUpdates(rows, updates) ==
    LET upd(r) == {k \in 1..Len(updates) : updates[k].orderId = r.id}
        newQuantity(r) == updates[CHOOSE k \in upd(r) : TRUE].newQuantity
    IN  {r \in rows : upd(r) = {}}
        \cup {[r EXCEPT !.quantity = newQuantity(r)] :
                 r \in {x \in rows : upd(x) # {} /\ newQuantity(x) # 0}}

\* steps 6 to 9, the settlement applier: the tables db after matchResult
Settle(db, m, matchResult) ==
    [balance |-> ApplyBalanceUpdates(db.balance, "balanceDelta",
                                     matchResult.balanceUpdates),
     locked |-> ApplyBalanceUpdates(db.locked, "lockedDelta",
                                    matchResult.balanceUpdates),
     positions |-> ApplyPositionUpdates(db.positions, m, matchResult.positionUpdates),
     orders |-> ApplyOrderUpdates(db.orders, matchResult.orderUpdates),
     executions |-> db.executions \o matchResult.executions]

StoreDb(db) ==
    /\ balance' = db.balance
    /\ locked' = db.locked
    /\ positions' = db.positions
    /\ orders' = db.orders
    /\ executions' = db.executions

ApplyMatchResult(m, matchResult) ==
    /\ StoreDb(Settle(Db, m, matchResult))
    /\ last' = [op |-> "executeMarket", result |-> "ok"]
    /\ UNCHANGED <<status, winningOutcomeId, nOrders>>

ExecuteMarket(m) ==
    LET marketOrders == {r \in orders : r.marketId = m}
    IN  IF status[m] # "open"
        THEN /\ last' = [op |-> "executeMarket", result |-> "Market not open"]
             /\ UNCHANGED <<balance, locked, status, winningOutcomeId, orders,
                            positions, executions, nOrders>>
        ELSE IF marketOrders = {}
        THEN /\ last' = [op |-> "executeMarket", result |-> "no orders"]
             /\ UNCHANGED <<balance, locked, status, winningOutcomeId, orders,
                            positions, executions, nOrders>>
        ELSE \E rows \in RowOrders(marketOrders) :
                 ApplyMatchResult(m, executeMatching(rows, OutcomeIds(m), m))

(***************************************************************************)
(* exchange.ts: calculatePayout; database: resolveMarket, one transaction  *)
(***************************************************************************)
calculatePayout(holdings, winning) == Held(holdings, winning)

\* the delete left out
DeleteWhereMarketKept(rows, m) == rows

\* tx.delete(table).where(eq(table.marketId, marketId))
DeleteWhereMarket(rows, m) == {r \in rows : r.marketId # m}

RECURSIVE SumEscrow(_)
SumEscrow(S) ==
    IF S = {} THEN Zero
    ELSE LET r == CHOOSE x \in S : TRUE
         IN  RAdd(r.escrowAmount, SumEscrow(S \ {r}))

ResolveMarket(m, w) ==
    IF w \notin SeqRange(OutcomeIds(m)) \/ status[m] # "open"
    THEN /\ last' = [op |-> "resolveMarket", result |-> "null"]
         /\ UNCHANGED <<balance, locked, status, winningOutcomeId, orders,
                        positions, executions, nOrders>>
    ELSE LET marketOrders == {r \in orders : r.marketId = m}
             marketPositions == {p \in positions : p.marketId = m}
             payout(u) == calculatePayout(HoldingsOf(marketPositions, u, m), w)
         IN  /\ status' = [status EXCEPT ![m] = "resolved"]
             /\ winningOutcomeId' = [winningOutcomeId EXCEPT ![m] = w]
             /\ locked' = [u \in Users |->
                              RSub(locked[u],
                                   SumEscrow({r \in marketOrders : r.userId = u}))]
             /\ orders' = DeleteWhereMarket(orders, m)
             /\ balance' = [u \in Users |->
                               IF RLt(Zero, payout(u))
                               THEN RAdd(balance[u], payout(u)) ELSE balance[u]]
             /\ positions' = DeleteWhereMarket(positions, m)
             /\ last' = [op |-> "resolveMarket", result |-> "ok"]
             /\ UNCHANGED <<executions, nOrders>>

\* the transactions one at a time
Next ==
    \/ \E u \in Users, m \in Markets : \E o \in OutcomeInputs(m) :
          \E in \in OrderInputs(m) :
             CreateOrder(u, m, o, in[1], in[2], in[3]) /\ UNCHANGED <<txn, pre>>
       /\ UNCHANGED apart
    \/ \E u \in Users, m \in Markets : CancelOrder(u, m) /\ UNCHANGED <<txn, pre>>
       /\ UNCHANGED apart
    \/ \E m \in Markets : ExecuteMarket(m) /\ UNCHANGED <<txn, pre>>
       /\ UNCHANGED apart
    \/ \E m \in Markets : \E w \in OutcomeInputs(m) :
          ResolveMarket(m, w) /\ UNCHANGED <<txn, pre>>
       /\ UNCHANGED apart

Spec == Init /\ [][Next]_vars

(***************************************************************************)
(* The same transactions run concurrently.  db.transaction opens a         *)
(* PostgreSQL transaction at the default isolation level, READ COMMITTED,  *)
(* and no statement takes a lock of its own: every SELECT reads the state  *)
(* committed at that instant, an UPDATE or DELETE locks the rows it        *)
(* touches until the transaction ends, and an INSERT that meets a          *)
(* committed row with the same unique key raises an error, which rolls     *)
(* the transaction back.  The variables above are the committed state;     *)
(* txn[t] holds the position of transaction t in its function body, what   *)
(* it has read and what it has written but not committed.  Two             *)
(* transactions run, each once; the market status and the outcomes, which  *)
(* neither of them writes, are read when the transaction begins.           *)
(***************************************************************************)
ConcInitBalance == 10

ConcSetupOrders == 2

Done(op, u, m, result) ==
    [pc |-> "done", op |-> op, u |-> u, m |-> m, result |-> result]

\* no transaction has begun: the state is still being set up
Setup == \A t \in Txns : txn[t].pc = "idle"

Running(t) == txn[t].pc \notin {"idle", "done"}

\* the users rows transaction t has updated and holds locked
UserRowLocks(t) ==
    IF ~Running(t) THEN {}
    ELSE IF txn[t].op = "createOrder"
         THEN (IF txn[t].pc = "insert" THEN {txn[t].u} ELSE {})
    ELSE IF txn[t].op = "resolveMarket" THEN txn[t].userLocks
    ELSE IF txn[t].op = "cancelOrder"
         THEN (IF txn[t].pc = "delete" THEN {txn[t].u} ELSE {})
    ELSE {txn[t].matchResult.balanceUpdates[j].userId : j \in 1..txn[t].usersDone}

UserRowFree(t, u) == \A s \in Txns \ {t} : u \notin UserRowLocks(s)

\* the positions rows transaction t has written, by (userId, marketId)
PositionRowLocks(t) ==
    IF Running(t) /\ txn[t].op = "executeMarket"
    THEN {<<p.userId, p.marketId>> : p \in txn[t].wPos}
    ELSE {}

PositionRowFree(t, u, m) == \A s \in Txns \ {t} : <<u, m>> \notin PositionRowLocks(s)

\* the orders rows transaction t has updated or deleted
OrderRowLocks(t) ==
    IF Running(t) /\ txn[t].op = "executeMarket"
    THEN {txn[t].matchResult.orderUpdates[j].orderId : j \in 1..txn[t].ordersDone}
         \cap {r.id : r \in orders}
    ELSE IF Running(t) /\ txn[t].op = "resolveMarket" THEN txn[t].delOrders
    ELSE {}

OrderRowFree(t, id) == \A s \in Txns \ {t} : id \notin OrderRowLocks(s)

\* the unique index on (userId, marketId), of orders and of positions
UniqueViolationOff(rows, u, m) == FALSE

UniqueViolation(rows, u, m) == \E r \in rows : r.userId = u /\ r.marketId = m

\* the committed state when the first transaction begins
PreOf(t) == IF Setup THEN Db ELSE pre

ConcInit ==
    /\ balance = [u \in Users |-> Num(ConcInitBalance)]
    /\ locked = [u \in Users |-> Zero]
    /\ status = [m \in Markets |-> "open"]
    /\ winningOutcomeId = [m \in Markets |-> ""]
    /\ orders = {}
    /\ positions = {}
    /\ executions = <<>>
    /\ nOrders = 0
    /\ last = [op |-> "init", result |-> "ok"]
    /\ txn = [t \in Txns |-> Idle]
    /\ pre = Db
    /\ ApartInit

\* createOrder, steps 1 and 2
BeginCreateOrder(t, u, m, o, d, q, p) ==
    /\ txn[t].pc = "idle"
    /\ txn' = [txn EXCEPT ![t] =
                  IF status[m] # "open"
                  THEN Done("createOrder", u, m, "Market not open")
                  ELSE IF o \notin SeqRange(OutcomeIds(m))
                  THEN Done("createOrder", u, m, "Invalid outcome")
                  ELSE [pc |-> "existing", op |-> "createOrder", u |-> u, m |-> m,
                        o |-> o, d |-> d, q |-> q, p |-> p, escrowAmount |-> Zero]]
    /\ pre' = PreOf(t)
    /\ UNCHANGED <<balance, locked, status, winningOutcomeId, orders, positions,
                   executions, nOrders, last>>

\* createOrder, step 3: the existing-order check
SelectExistingOrder(t) ==
    /\ txn[t].pc = "existing"
    /\ txn' = [txn EXCEPT ![t] =
                  IF \E r \in orders : r.userId = txn[t].u /\ r.marketId = txn[t].m
                  THEN Done("createOrder", txn[t].u, txn[t].m,
                            "You already have an order in this market")
                  ELSE [@ EXCEPT !.pc = "position"]]
    /\ UNCHANGED <<balance, locked, status, winningOutcomeId, orders, positions,
                   executions, nOrders, last, pre>>

\* createOrder, steps 4 and 5: the holdings read and the escrow computed
SelectPosition(t) ==
    /\ txn[t].pc = "position"
    /\ txn' = [txn EXCEPT ![t] =
                  [@ EXCEPT !.pc = "user",
                            !.escrowAmount =
                                calculateEscrow(txn[t].d, txn[t].q, txn[t].p,
                                    Held(HoldingsOf(positions, txn[t].u, txn[t].m),
                                         txn[t].o))]]
    /\ UNCHANGED <<balance, locked, status, winningOutcomeId, orders, positions,
                   executions, nOrders, last, pre>>

\* createOrder, step 6: the balance check
SelectUser(t) ==
    /\ txn[t].pc = "user"
    /\ txn' = [txn EXCEPT ![t] =
                  IF RLt(RSub(balance[txn[t].u], locked[txn[t].u]), txn[t].escrowAmount)
                  THEN Done("createOrder", txn[t].u, txn[t].m, "Insufficient balance")
                  ELSE [@ EXCEPT !.pc = "lock"]]
    /\ UNCHANGED <<balance, locked, status, winningOutcomeId, orders, positions,
                   executions, nOrders, last, pre>>

\* createOrder, step 7: UPDATE users SET locked = locked + escrowAmount waits
\* for the row and holds it until the transaction ends
UpdateLocked(t) ==
    /\ txn[t].pc = "lock"
    /\ UserRowFree(t, txn[t].u)
    /\ txn' = [txn EXCEPT ![t] = [@ EXCEPT !.pc = "insert"]]
    /\ UNCHANGED <<balance, locked, status, winningOutcomeId, orders, positions,
                   executions, nOrders, last, pre>>

\* createOrder, step 8 and the end of the transaction: the insert either
\* fails on the unique index, and the transaction rolls back, or the
\* transaction commits the locked amount and the order
InsertOrder(t) ==
    /\ txn[t].pc = "insert"
    /\ IF UniqueViolation(orders, txn[t].u, txn[t].m)
       THEN /\ txn' = [txn EXCEPT ![t] = Done("createOrder", txn[t].u, txn[t].m,
                                               "unique violation")]
            /\ UNCHANGED <<locked, orders>>
       ELSE /\ txn' = [txn EXCEPT ![t] = Done("createOrder", txn[t].u, txn[t].m, "ok")]
            /\ locked' = [locked EXCEPT ![txn[t].u] = RAdd(@, txn[t].escrowAmount)]
            /\ orders' = orders \cup
                   {[id |-> FreshOrderId(orders, txn[t].u, txn[t].m),
                     userId |-> txn[t].u, marketId |-> txn[t].m,
                     outcomeId |-> txn[t].o, direction |-> txn[t].d,
                     quantity |-> txn[t].q, price |-> txn[t].p,
                     escrowAmount |-> txn[t].escrowAmount]}
    /\ UNCHANGED <<balance, status, winningOutcomeId, positions, executions,
                   nOrders, last, pre>>

\* the result of a matching run that has not happened yet
EmptyResult ==
    [executions |-> <<>>, orderUpdates |-> <<>>, positionUpdates |-> <<>>,
     balanceUpdates |-> <<>>]

\* positionUpdatesMap keeps the users in the order they first appear
RECURSIVE PositionUsers(_, _)
PositionUsers(updates, seen) ==
    IF updates = <<>> THEN <<>>
    ELSE IF Head(updates).userId \in seen THEN PositionUsers(Tail(updates), seen)
    ELSE <<Head(updates).userId>>
         \o PositionUsers(Tail(updates), seen \cup {Head(updates).userId})

\* executeMarket, steps 1 and 2
BeginExecuteMarket(t, m) ==
    /\ txn[t].pc = "idle"
    /\ txn' = [txn EXCEPT ![t] =
                  IF status[m] # "open"
                  THEN Done("executeMarket", "", m, "Market not open")
                  ELSE [pc |-> "orders", op |-> "executeMarket", m |-> m,
                        matchResult |-> EmptyResult, usersDone |-> 0,
                        posUsers |-> <<>>, posDone |-> 0, posRead |-> {},
                        wPos |-> {}, ordersDone |-> 0]]
    /\ pre' = PreOf(t)
    /\ UNCHANGED <<balance, locked, status, winningOutcomeId, orders, positions,
                   executions, nOrders, last>>

\* what executeMarket goes on to once the matching result is known: with no
\* execution every loop of steps 6 to 9 is empty
AfterMatching(r, matchResult) ==
    [r EXCEPT !.pc = IF matchResult.executions = <<>> THEN "commit" ELSE "balances",
              !.matchResult = matchResult,
              !.posUsers = PositionUsers(matchResult.positionUpdates, {})]

\* executeMarket, steps 3 to 5: the orders read, in any row order, and matched
SelectOrders(t) ==
    /\ txn[t].pc = "orders"
    /\ txn[t].op = "executeMarket"
    /\ IF {r \in orders : r.marketId = txn[t].m} = {}
       THEN txn' = [txn EXCEPT ![t] = Done("executeMarket", "", txn[t].m, "no orders")]
       ELSE \E rows \in RowOrders({r \in orders : r.marketId = txn[t].m}) :
                txn' = [txn EXCEPT ![t] =
                           AfterMatching(txn[t],
                               executeMatching(rows, OutcomeIds(txn[t].m), txn[t].m))]
    /\ UNCHANGED <<balance, locked, status, winningOutcomeId, orders, positions,
                   executions, nOrders, last, pre>>

\* executeMarket, step 6, one update: it waits for the users row
UpdateUser(t) ==
    /\ txn[t].pc = "balances"
    /\ UserRowFree(t, txn[t].matchResult.balanceUpdates[txn[t].usersDone + 1].userId)
    /\ txn' = [txn EXCEPT ![t] =
                  [@ EXCEPT !.usersDone = @ + 1,
                            !.pc = IF txn[t].usersDone + 1
                                        = Len(txn[t].matchResult.balanceUpdates)
                                   THEN "posSelect" ELSE "balances"]]
    /\ UNCHANGED <<balance, locked, status, winningOutcomeId, orders, positions,
                   executions, nOrders, last, pre>>

\* executeMarket, step 7, the select of one user's position row
SelectExistingPos(t) ==
    /\ txn[t].pc = "posSelect"
    /\ txn' = [txn EXCEPT ![t] =
                  [@ EXCEPT !.pc = "posWrite",
                            !.posRead =
                                {p \in positions :
                                    /\ p.userId = txn[t].posUsers[txn[t].posDone + 1]
                                    /\ p.marketId = txn[t].m}]]
    /\ UNCHANGED <<balance, locked, status, winningOutcomeId, orders, positions,
                   executions, nOrders, last, pre>>

\* the transaction record after the position row of user u has been written
PositionWritten(r, u) ==
    [r EXCEPT !.wPos = @ \cup {[userId |-> u, marketId |-> r.m,
                                holdings |-> NewHoldings(r.posRead, r.m,
                                                r.matchResult.positionUpdates, u)]},
              !.posRead = {},
              !.posDone = @ + 1,
              !.pc = IF r.posDone + 1 = Len(r.posUsers)
                     THEN "orderUpdates" ELSE "posSelect"]

\* executeMarket, step 7, the write of one user's position row: an update of
\* the row read, or an insert that fails when the row exists by now
WritePosition(t, u) ==
    /\ txn[t].pc = "posWrite"
    /\ u = txn[t].posUsers[txn[t].posDone + 1]
    /\ PositionRowFree(t, u, txn[t].m)
    /\ txn' = [txn EXCEPT ![t] =
                  IF txn[t].posRead = {} /\ UniqueViolation(positions, u, txn[t].m)
                  THEN Done("executeMarket", "", txn[t].m, "unique violation")
                  ELSE PositionWritten(txn[t], u)]
    /\ UNCHANGED <<balance, locked, status, winningOutcomeId, orders, positions,
                   executions, nOrders, last, pre>>

\* executeMarket, step 8, one order update: the delete or update waits for
\* the row and changes nothing when the row is gone
UpdateOrder(t) ==
    /\ txn[t].pc = "orderUpdates"
    /\ OrderRowFree(t, txn[t].matchResult.orderUpdates[txn[t].ordersDone + 1].orderId)
    /\ txn' = [txn EXCEPT ![t] =
                  [@ EXCEPT !.ordersDone = @ + 1,
                            !.pc = IF txn[t].ordersDone + 1
                                        = Len(txn[t].matchResult.orderUpdates)
                                   THEN "commit" ELSE "orderUpdates"]]
    /\ UNCHANGED <<balance, locked, status, winningOutcomeId, orders, positions,
                   executions, nOrders, last, pre>>

\* the positions table with the rows written by a transaction in place
WritePositions(pos, wPos) ==
    {p \in pos : ~\E w \in wPos : w.userId = p.userId /\ w.marketId = p.marketId}
    \cup wPos

\* executeMarket, step 9 and the commit: the deltas of step 6 land on the
\* users rows as they are now, which the transaction has held since
CommitExecuteMarket(t) ==
    /\ txn[t].pc = "commit"
    /\ txn[t].op = "executeMarket"
    /\ balance' = ApplyBalanceUpdates(balance, "balanceDelta",
                                      txn[t].matchResult.balanceUpdates)
    /\ locked' = ApplyBalanceUpdates(locked, "lockedDelta",
                                     txn[t].matchResult.balanceUpdates)
    /\ positions' = WritePositions(positions, txn[t].wPos)
    /\ orders' = ApplyOrderUpdates(orders, txn[t].matchResult.orderUpdates)
    /\ executions' = executions \o txn[t].matchResult.executions
    /\ txn' = [txn EXCEPT ![t] = Done("executeMarket", "", txn[t].m, "ok")]
    /\ UNCHANGED <<status, winningOutcomeId, nOrders, last, pre>>

ConcOrderInputs == Directions \X {10} \X Prices

ConcNext ==
    \/ \E u \in Users, o \in SeqRange(OutcomeIds("m1")), in \in ConcOrderInputs :
          /\ Setup
          /\ nOrders < ConcSetupOrders
          /\ CreateOrder(u, "m1", o, in[1], in[2], in[3])
          /\ UNCHANGED <<txn, pre>>
       /\ UNCHANGED apart
    \/ \E t \in Txns, u \in Users, m \in Markets :
          BeginCreateOrder(t, u, m, OutcomeIds(m)[1], "buy", 10, Rat(7, 10))
       /\ UNCHANGED apart
    \/ \E t \in Txns : SelectExistingOrder(t)
       /\ UNCHANGED apart
    \/ \E t \in Txns : SelectPosition(t)
       /\ UNCHANGED apart
    \/ \E t \in Txns : SelectUser(t)
       /\ UNCHANGED apart
    \/ \E t \in Txns : UpdateLocked(t)
       /\ UNCHANGED apart
    \/ \E t \in Txns : InsertOrder(t)
       /\ UNCHANGED apart
    \/ \E t \in Txns, m \in Markets : BeginExecuteMarket(t, m)
       /\ UNCHANGED apart
    \/ \E t \in Txns : SelectOrders(t)
       /\ UNCHANGED apart
    \/ \E t \in Txns : UpdateUser(t)
       /\ UNCHANGED apart
    \/ \E t \in Txns : SelectExistingPos(t)
       /\ UNCHANGED apart
    \/ \E t \in Txns, u \in Users : WritePosition(t, u)
       /\ UNCHANGED apart
    \/ \E t \in Txns : UpdateOrder(t)
       /\ UNCHANGED apart
    \/ \E t \in Txns : CommitExecuteMarket(t)
       /\ UNCHANGED apart

SpecConc == ConcInit /\ [][ConcNext]_vars

(***************************************************************************)
(* database: a statement of executeMarket that throws.  db.transaction     *)
(* rolls the transaction back when its callback throws, and executeMarket  *)
(* catches nothing: whatever statement of steps 6 to 9 fails, the writes   *)
(* made so far are discarded.                                              *)
(***************************************************************************)
PersistenceSteps == {"balances", "posSelect", "posWrite", "orderUpdates", "commit"}

\* the failure after which the balance updates already made stay
StatementFailsKept(t) ==
    /\ Running(t)
    /\ txn[t].op = "executeMarket"
    /\ txn[t].pc \in PersistenceSteps
    /\ balance' = ApplyBalanceUpdates(balance, "balanceDelta",
                      SubSeq(txn[t].matchResult.balanceUpdates, 1, txn[t].usersDone))
    /\ locked' = ApplyBalanceUpdates(locked, "lockedDelta",
                     SubSeq(txn[t].matchResult.balanceUpdates, 1, txn[t].usersDone))
    /\ txn' = [txn EXCEPT ![t] = Done("executeMarket", "", txn[t].m, "error")]
    /\ UNCHANGED <<status, winningOutcomeId, orders, positions, executions,
                   nOrders, last, pre>>

StatementFails(t) ==
    /\ Running(t)
    /\ txn[t].op = "executeMarket"
    /\ txn[t].pc \in PersistenceSteps
    /\ txn' = [txn EXCEPT ![t] = Done("executeMarket", "", txn[t].m, "error")]
    /\ UNCHANGED <<balance, locked, status, winningOutcomeId, orders, positions,
                   executions, nOrders, last, pre>>

FailNext ==
    \/ ConcNext
    \/ \E t \in Txns : StatementFails(t)
       /\ UNCHANGED apart

SpecFail == ConcInit /\ [][FailNext]_vars

\* the transactions one at a time, the users starting with ConcInitBalance:
\* the escrow of a second order can exceed what is available
SpecLowBalance == ConcInit /\ [][Next]_vars

(***************************************************************************)
(* database: resolveMarket as a transaction that overlaps another.  The    *)
(* UPDATE of the markets row waits for the row, evaluates its WHERE on the *)
(* committed row and holds the row until the transaction ends; the         *)
(* statements after it are buffered like those of executeMarket.  The      *)
(* state is set up by createOrder and executeMarket transactions on m1 run *)
(* one at a time, then two resolveMarket transactions run.                 *)
(***************************************************************************)
ResolveSetupOrders == 3

\* the markets rows transaction t has updated and holds locked
MarketRowLocks(t) ==
    IF Running(t) /\ txn[t].op = "resolveMarket" /\ txn[t].pc # "market"
    THEN {txn[t].m} ELSE {}

MarketRowFree(t, m) == \A s \in Txns \ {t} : m \notin MarketRowLocks(s)

\* the WHERE of the update taken to match whatever the status
StillOpenAlways(m) == TRUE

\* and(eq(markets.id, marketId), eq(markets.status, "open"))
StillOpen(m) == status[m] = "open"

\* resolveMarket, step 1: the outcome looked up in the market
BeginResolveMarket(t, m, w) ==
    /\ txn[t].pc = "idle"
    /\ txn' = [txn EXCEPT ![t] =
                  IF w \notin SeqRange(OutcomeIds(m))
                  THEN Done("resolveMarket", "", m, "null")
                  ELSE [pc |-> "market", op |-> "resolveMarket", m |-> m, w |-> w,
                        rOrders |-> <<>>, refundsDone |-> 0, userLocks |-> {},
                        delOrders |-> {}, rPos |-> <<>>, paysDone |-> 0]]
    /\ pre' = PreOf(t)
    /\ UNCHANGED <<balance, locked, status, winningOutcomeId, orders, positions,
                   executions, nOrders, last>>

\* resolveMarket, step 2: the conditional update of the markets row; no row
\* returned is the null result
UpdateMarket(t) ==
    /\ txn[t].pc = "market"
    /\ MarketRowFree(t, txn[t].m)
    /\ txn' = [txn EXCEPT ![t] =
                  IF StillOpen(txn[t].m)
                  THEN [@ EXCEPT !.pc = "orders"]
                  ELSE Done("resolveMarket", "", txn[t].m, "null")]
    /\ UNCHANGED <<balance, locked, status, winningOutcomeId, orders, positions,
                   executions, nOrders, last, pre>>

\* resolveMarket, step 3: the orders of the market read, in any row order
SelectMarketOrders(t) ==
    /\ txn[t].pc = "orders"
    /\ txn[t].op = "resolveMarket"
    /\ \E rows \in RowOrders({r \in orders : r.marketId = txn[t].m}) :
           txn' = [txn EXCEPT ![t] =
                      [@ EXCEPT !.rOrders = rows,
                                !.pc = IF rows = <<>> THEN "deleteOrders"
                                                       ELSE "refund"]]
    /\ UNCHANGED <<balance, locked, status, winningOutcomeId, orders, positions,
                   executions, nOrders, last, pre>>

\* resolveMarket, step 3, one refund: UPDATE users SET locked = locked -
\* escrowAmount waits for the users row
RefundOrder(t) ==
    /\ txn[t].pc = "refund"
    /\ UserRowFree(t, txn[t].rOrders[txn[t].refundsDone + 1].userId)
    /\ txn' = [txn EXCEPT ![t] =
                  [@ EXCEPT !.refundsDone = @ + 1,
                            !.userLocks =
                                @ \cup {txn[t].rOrders[txn[t].refundsDone + 1].userId},
                            !.pc = IF txn[t].refundsDone + 1 = Len(txn[t].rOrders)
                                   THEN "deleteOrders" ELSE "refund"]]
    /\ UNCHANGED <<balance, locked, status, winningOutcomeId, orders, positions,
                   executions, nOrders, last, pre>>

\* resolveMarket, step 3, the delete of the orders the market has by now
DeleteOrders(t) ==
    /\ txn[t].pc = "deleteOrders"
    /\ \A r \in orders : r.marketId = txn[t].m => OrderRowFree(t, r.id)
    /\ txn' = [txn EXCEPT ![t] =
                  [@ EXCEPT !.delOrders = {r.id : r \in {x \in orders :
                                                            x.marketId = txn[t].m}},
                            !.pc = "positions"]]
    /\ UNCHANGED <<balance, locked, status, winningOutcomeId, orders, positions,
                   executions, nOrders, last, pre>>

\* resolveMarket, step 4: the positions of the market read, in any row order
SelectMarketPositions(t) ==
    /\ txn[t].pc = "positions"
    /\ \E rows \in RowOrders({p \in positions : p.marketId = txn[t].m}) :
           txn' = [txn EXCEPT ![t] =
                      [@ EXCEPT !.rPos = rows,
                                !.pc = IF rows = <<>> THEN "commit" ELSE "pay"]]
    /\ UNCHANGED <<balance, locked, status, winningOutcomeId, orders, positions,
                   executions, nOrders, last, pre>>

\* the payout of a position row read
PayoutOf(position, w) == calculatePayout(position.holdings, w)

\* resolveMarket, step 4, one position: the credit, when the payout is
\* positive, waits for the users row
PayPosition(t) ==
    /\ txn[t].pc = "pay"
    /\ RLt(Zero, PayoutOf(txn[t].rPos[txn[t].paysDone + 1], txn[t].w))
       => UserRowFree(t, txn[t].rPos[txn[t].paysDone + 1].userId)
    /\ txn' = [txn EXCEPT ![t] =
                  [@ EXCEPT !.paysDone = @ + 1,
                            !.userLocks =
                                IF RLt(Zero, PayoutOf(txn[t].rPos[txn[t].paysDone + 1],
                                                      txn[t].w))
                                THEN @ \cup {txn[t].rPos[txn[t].paysDone + 1].userId}
                                ELSE @,
                            !.pc = IF txn[t].paysDone + 1 = Len(txn[t].rPos)
                                   THEN "commit" ELSE "pay"]]
    /\ UNCHANGED <<balance, locked, status, winningOutcomeId, orders, positions,
                   executions, nOrders, last, pre>>

\* the refunds of step 3 that fall on the users row of u
RECURSIVE SumRefunds(_, _)
SumRefunds(rows, u) ==
    IF rows = <<>> THEN Zero
    ELSE RAdd(IF Head(rows).userId = u THEN Head(rows).escrowAmount ELSE Zero,
              SumRefunds(Tail(rows), u))

\* the credits of step 4 that fall on the users row of u
RECURSIVE SumCredits(_, _, _)
SumCredits(rows, u, w) ==
    IF rows = <<>> THEN Zero
    ELSE RAdd(IF Head(rows).userId = u /\ RLt(Zero, PayoutOf(Head(rows), w))
              THEN PayoutOf(Head(rows), w) ELSE Zero,
              SumCredits(Tail(rows), u, w))

\* resolveMarket, step 5 and the commit: the positions deleted, and the
\* refunds and credits land on the users rows as they are now
CommitResolveMarket(t) ==
    /\ txn[t].pc = "commit"
    /\ txn[t].op = "resolveMarket"
    /\ status' = [status EXCEPT ![txn[t].m] = "resolved"]
    /\ winningOutcomeId' = [winningOutcomeId EXCEPT ![txn[t].m] = txn[t].w]
    /\ locked' = [u \in Users |->
                     RSub(locked[u], SumRefunds(txn[t].rOrders, u))]
    /\ orders' = {r \in orders : r.id \notin txn[t].delOrders}
    /\ balance' = [u \in Users |->
                      RAdd(balance[u], SumCredits(txn[t].rPos, u, txn[t].w))]
    /\ positions' = DeleteWhereMarket(positions, txn[t].m)
    /\ txn' = [txn EXCEPT ![t] = Done("resolveMarket", "", txn[t].m, "ok")]
    /\ UNCHANGED <<executions, nOrders, last, pre>>

ResolveNext ==
    \/ \E u \in Users, o \in SeqRange(OutcomeIds("m1")), in \in ConcOrderInputs :
          /\ Setup
          /\ nOrders < ResolveSetupOrders
          /\ CreateOrder(u, "m1", o, in[1], in[2], in[3])
          /\ UNCHANGED <<txn, pre>>
       /\ UNCHANGED apart
    \/ Setup /\ ExecuteMarket("m1") /\ UNCHANGED <<txn, pre>>
       /\ UNCHANGED apart
    \/ \E t \in Txns, m \in Markets : \E w \in OutcomeInputs(m) :
          BeginResolveMarket(t, m, w)
       /\ UNCHANGED apart
    \/ \E t \in Txns : UpdateMarket(t)
       /\ UNCHANGED apart
    \/ \E t \in Txns : SelectMarketOrders(t)
       /\ UNCHANGED apart
    \/ \E t \in Txns : RefundOrder(t)
       /\ UNCHANGED apart
    \/ \E t \in Txns : DeleteOrders(t)
       /\ UNCHANGED apart
    \/ \E t \in Txns : SelectMarketPositions(t)
       /\ UNCHANGED apart
    \/ \E t \in Txns : PayPosition(t)
       /\ UNCHANGED apart
    \/ \E t \in Txns : CommitResolveMarket(t)
       /\ UNCHANGED apart

SpecResolve == ConcInit /\ [][ResolveNext]_vars

(***************************************************************************)
(* database: the four transactions overlapping one another.  cancelOrder   *)
(* is taken statement by statement like the others: a plain SELECT of the  *)
(* order, the UPDATE of the users row, the DELETE of the order by its id.  *)
(* Orders are placed on both markets and matched one transaction at a      *)
(* time, then two transactions of any kind run, each once, one on each     *)
(* market.                                                                 *)
(***************************************************************************)
OverlapSetupOrders == 3

\* cancelOrder, step 1: the order read
BeginCancelOrder(t, u, m) ==
    /\ txn[t].pc = "idle"
    /\ txn' = [txn EXCEPT ![t] =
                  IF ~\E r \in orders : r.userId = u /\ r.marketId = m
                  THEN Done("cancelOrder", u, m, "No order found in this market")
                  ELSE [pc |-> "unlock", op |-> "cancelOrder", u |-> u, m |-> m,
                        order |-> CHOOSE r \in orders :
                                      r.userId = u /\ r.marketId = m]]
    /\ pre' = PreOf(t)
    /\ UNCHANGED <<balance, locked, status, winningOutcomeId, orders, positions,
                   executions, nOrders, last>>

\* cancelOrder, step 2: UPDATE users SET locked = locked - escrowAmount
\* waits for the users row
UnlockEscrow(t) ==
    /\ txn[t].pc = "unlock"
    /\ UserRowFree(t, txn[t].u)
    /\ txn' = [txn EXCEPT ![t] = [@ EXCEPT !.pc = "delete"]]
    /\ UNCHANGED <<balance, locked, status, winningOutcomeId, orders, positions,
                   executions, nOrders, last, pre>>

\* the unlock written over the locked amount read when the transaction began
DeleteOrderStale(t) ==
    /\ txn[t].pc = "delete"
    /\ OrderRowFree(t, txn[t].order.id)
    /\ locked' = [locked EXCEPT ![txn[t].u] =
                     RSub(pre.locked[txn[t].u], txn[t].order.escrowAmount)]
    /\ orders' = {r \in orders : r.id # txn[t].order.id}
    /\ txn' = [txn EXCEPT ![t] = Done("cancelOrder", txn[t].u, txn[t].m, "ok")]
    /\ UNCHANGED <<balance, status, winningOutcomeId, positions, executions,
                   nOrders, last, pre>>

\* cancelOrder, step 3 and the commit: the DELETE by id waits for the row
\* and removes it when it is still there; the unlock lands on the users row
\* as it is now
DeleteOrder(t) ==
    /\ txn[t].pc = "delete"
    /\ OrderRowFree(t, txn[t].order.id)
    /\ locked' = [locked EXCEPT ![txn[t].u] = RSub(@, txn[t].order.escrowAmount)]
    /\ orders' = {r \in orders : r.id # txn[t].order.id}
    /\ txn' = [txn EXCEPT ![t] = Done("cancelOrder", txn[t].u, txn[t].m, "ok")]
    /\ UNCHANGED <<balance, status, winningOutcomeId, positions, executions,
                   nOrders, last, pre>>

\* the market each of the two transactions works on
MarketOf == [t \in Txns |-> IF t = "t1" THEN "m1" ELSE "m2"]

OverlapNext ==
    \/ \E u \in Users, m \in Markets, p \in Prices :
       \E o \in SeqRange(OutcomeIds(m)) :
          /\ Setup
          /\ nOrders < OverlapSetupOrders
          /\ CreateOrder(u, m, o, "buy", 10, p)
          /\ UNCHANGED <<txn, pre>>
       /\ UNCHANGED apart
    \/ \E m \in Markets : Setup /\ ExecuteMarket(m) /\ UNCHANGED <<txn, pre>>
       /\ UNCHANGED apart
    \/ \E t \in Txns, u \in Users :
          BeginCreateOrder(t, u, MarketOf[t], OutcomeIds(MarketOf[t])[1], "buy",
                           10, Rat(3, 10))
       /\ UNCHANGED apart
    \/ \E t \in Txns : SelectExistingOrder(t)
       /\ UNCHANGED apart
    \/ \E t \in Txns : SelectPosition(t)
       /\ UNCHANGED apart
    \/ \E t \in Txns : SelectUser(t)
       /\ UNCHANGED apart
    \/ \E t \in Txns : UpdateLocked(t)
       /\ UNCHANGED apart
    \/ \E t \in Txns : InsertOrder(t)
       /\ UNCHANGED apart
    \/ \E t \in Txns, u \in Users : BeginCancelOrder(t, u, MarketOf[t])
       /\ UNCHANGED apart
    \/ \E t \in Txns : UnlockEscrow(t)
       /\ UNCHANGED apart
    \/ \E t \in Txns : DeleteOrder(t)
       /\ UNCHANGED apart
    \/ \E t \in Txns : BeginExecuteMarket(t, MarketOf[t])
       /\ UNCHANGED apart
    \/ \E t \in Txns : SelectOrders(t)
       /\ UNCHANGED apart
    \/ \E t \in Txns : UpdateUser(t)
       /\ UNCHANGED apart
    \/ \E t \in Txns : SelectExistingPos(t)
       /\ UNCHANGED apart
    \/ \E t \in Txns, u \in Users : WritePosition(t, u)
       /\ UNCHANGED apart
    \/ \E t \in Txns : UpdateOrder(t)
       /\ UNCHANGED apart
    \/ \E t \in Txns : CommitExecuteMarket(t)
       /\ UNCHANGED apart
    \/ \E t \in Txns :
          BeginResolveMarket(t, MarketOf[t], OutcomeIds(MarketOf[t])[1])
       /\ UNCHANGED apart
    \/ \E t \in Txns : UpdateMarket(t)
       /\ UNCHANGED apart
    \/ \E t \in Txns : SelectMarketOrders(t)
       /\ UNCHANGED apart
    \/ \E t \in Txns : RefundOrder(t)
       /\ UNCHANGED apart
    \/ \E t \in Txns : DeleteOrders(t)
       /\ UNCHANGED apart
    \/ \E t \in Txns : SelectMarketPositions(t)
       /\ UNCHANGED apart
    \/ \E t \in Txns : PayPosition(t)
       /\ UNCHANGED apart
    \/ \E t \in Txns : CommitResolveMarket(t)
       /\ UNCHANGED apart

SpecOverlap == ConcInit /\ [][OverlapNext]_vars

(***************************************************************************)
(* database: cancelOrder and executeMarket overlapping on one market.      *)
(* Orders are placed on m1 one transaction at a time, then the two         *)
(* transactions run, each a cancelOrder or an executeMarket on m1.         *)
(***************************************************************************)
CancelNext ==
    \/ \E u \in Users, o \in SeqRange(OutcomeIds("m1")), in \in ConcOrderInputs :
          /\ Setup
          /\ nOrders < ConcSetupOrders
          /\ CreateOrder(u, "m1", o, in[1], in[2], in[3])
          /\ UNCHANGED <<txn, pre>>
       /\ UNCHANGED apart
    \/ \E t \in Txns, u \in Users : BeginCancelOrder(t, u, "m1")
       /\ UNCHANGED apart
    \/ \E t \in Txns : UnlockEscrow(t)
       /\ UNCHANGED apart
    \/ \E t \in Txns : DeleteOrder(t)
       /\ UNCHANGED apart
    \/ \E t \in Txns : BeginExecuteMarket(t, "m1")
       /\ UNCHANGED apart
    \/ \E t \in Txns : SelectOrders(t)
       /\ UNCHANGED apart
    \/ \E t \in Txns : UpdateUser(t)
       /\ UNCHANGED apart
    \/ \E t \in Txns : SelectExistingPos(t)
       /\ UNCHANGED apart
    \/ \E t \in Txns, u \in Users : WritePosition(t, u)
       /\ UNCHANGED apart
    \/ \E t \in Txns : UpdateOrder(t)
       /\ UNCHANGED apart
    \/ \E t \in Txns : CommitExecuteMarket(t)
       /\ UNCHANGED apart

SpecCancel == ConcInit /\ [][CancelNext]_vars

(***************************************************************************)
(* database: createOrder and resolveMarket overlapping on one market.      *)
(* Orders are placed on m1 and matched one transaction at a time, then     *)
(* the two transactions run, each a createOrder or a resolveMarket on m1.  *)
(***************************************************************************)
LateNext ==
    \/ \E u \in Users, o \in SeqRange(OutcomeIds("m1")), in \in ConcOrderInputs :
          /\ Setup
          /\ nOrders < ConcSetupOrders
          /\ CreateOrder(u, "m1", o, in[1], in[2], in[3])
          /\ UNCHANGED <<txn, pre>>
       /\ UNCHANGED apart
    \/ Setup /\ ExecuteMarket("m1") /\ UNCHANGED <<txn, pre>>
       /\ UNCHANGED apart
    \/ \E t \in Txns, u \in Users, p \in Prices :
          BeginCreateOrder(t, u, "m1", OutcomeIds("m1")[1], "buy", 10, p)
       /\ UNCHANGED apart
    \/ \E t \in Txns : SelectExistingOrder(t)
       /\ UNCHANGED apart
    \/ \E t \in Txns : SelectPosition(t)
       /\ UNCHANGED apart
    \/ \E t \in Txns : SelectUser(t)
       /\ UNCHANGED apart
    \/ \E t \in Txns : UpdateLocked(t)
       /\ UNCHANGED apart
    \/ \E t \in Txns : InsertOrder(t)
       /\ UNCHANGED apart
    \/ \E t \in Txns : \E w \in OutcomeInputs("m1") :
          BeginResolveMarket(t, "m1", w)
       /\ UNCHANGED apart
    \/ \E t \in Txns : UpdateMarket(t)
       /\ UNCHANGED apart
    \/ \E t \in Txns : SelectMarketOrders(t)
       /\ UNCHANGED apart
    \/ \E t \in Txns : RefundOrder(t)
       /\ UNCHANGED apart
    \/ \E t \in Txns : DeleteOrders(t)
       /\ UNCHANGED apart
    \/ \E t \in Txns : SelectMarketPositions(t)
       /\ UNCHANGED apart
    \/ \E t \in Txns : PayPosition(t)
       /\ UNCHANGED apart
    \/ \E t \in Txns : CommitResolveMarket(t)
       /\ UNCHANGED apart

SpecLate == ConcInit /\ [][LateNext]_vars

(***************************************************************************)
(* exchange.ts: executeMatching on its own, statement by statement.  The   *)
(* book is drawn from the orders the tables can hold for one market: one   *)
(* order per user, the users without holdings, in any row order (the       *)
(* users are interchangeable, so row k belongs to the k-th of them).  One  *)
(* pass of the while loop is the synthetic attempt and then the direct     *)
(* attempt; last holds the call, where it stands and what it returned.     *)
(***************************************************************************)
MatchUsers == <<"alice", "bob", "carol", "dave">>

MaxBook == 3

MatchPrices == {Rat(3, 10), Rat(1, 2), Rat(7, 10)}

\* (outcomeId, direction, quantity, price) of one row; the three-outcome
\* market takes buy orders only
BookInputs(m) ==
    SeqRange(OutcomeIds(m)) \X (IF m = "m1" THEN Directions ELSE {"buy"})
        \X Qtys \X MatchPrices

Books(m) == UNION {[1..n -> BookInputs(m)] : n \in 1..MaxBook}

BookRow(m, k, in) ==
    [id |-> <<MatchUsers[k], m, 1>>, userId |-> MatchUsers[k], marketId |-> m,
     outcomeId |-> in[1], direction |-> in[2], quantity |-> in[3], price |-> in[4],
     escrowAmount |-> calculateEscrow(in[2], in[3], in[4], Zero)]

\* executeMatching, lines 289-346: the result and the book set up
InitialMatchState(rows) ==
    [ofm |-> OrdersForMatching(rows), changes |-> <<>>, positionUpdates |-> <<>>,
     executions |-> <<>>, parties |-> <<>>, matchFound |-> TRUE]

StartMatching(m, book) ==
    /\ last.op = "init"
    /\ last' = [op |-> "executeMatching", pc |-> "synthetic", marketId |-> m,
                orders |-> [k \in 1..Len(book) |-> BookRow(m, k, book[k])],
                ms |-> InitialMatchState([k \in 1..Len(book) |->
                                             BookRow(m, k, book[k])]),
                result |-> EmptyResult]
    /\ UNCHANGED <<balance, locked, status, winningOutcomeId, orders, positions,
                   executions, nOrders, txn, pre>>

Matching(pc) == last.op = "executeMatching" /\ last.pc = pc

\* the first half of a pass: matchFound = false, then the synthetic attempt
TrySynthetic ==
    /\ Matching("synthetic")
    /\ last' = [last EXCEPT
                   !.pc = "direct",
                   !.ms = SyntheticStep(last.ms, last.marketId,
                              OutcomeIds(last.marketId),
                              findSyntheticMatch(last.ms.ofm,
                                                 OutcomeIds(last.marketId)))]
    /\ UNCHANGED <<balance, locked, status, winningOutcomeId, orders, positions,
                   executions, nOrders, txn, pre>>

\* the loop test always taken to find matchFound set
AfterPassAgain(r, ms) == [r EXCEPT !.pc = "synthetic", !.ms = ms]

\* the loop left after one pass whatever it found
AfterPassOnce(r, ms) == [r EXCEPT !.pc = "compile", !.ms = ms]

\* the loop test after a pass
AfterPass(r, ms) ==
    [r EXCEPT !.pc = IF ms.matchFound THEN "synthetic" ELSE "compile", !.ms = ms]

\* the second half of a pass: the direct attempt, then the loop test
TryDirect ==
    /\ Matching("direct")
    /\ last' = AfterPass(last, DirectAttempt(last.ms, last.marketId,
                                             OutcomeIds(last.marketId)))
    /\ UNCHANGED <<balance, locked, status, winningOutcomeId, orders, positions,
                   executions, nOrders, txn, pre>>

\* after the loop: the order and balance updates compiled, the result returned
ReturnResult ==
    /\ Matching("compile")
    /\ last' = [last EXCEPT !.pc = "returned", !.result = MatchingResult(last.ms)]
    /\ UNCHANGED <<balance, locked, status, winningOutcomeId, orders, positions,
                   executions, nOrders, txn, pre>>

MatchNext ==
    \/ last.op = "init" /\ \E m \in Markets : \E book \in Books(m) :
                                StartMatching(m, book)
       /\ UNCHANGED apart
    \/ TrySynthetic
       /\ UNCHANGED apart
    \/ TryDirect
       /\ UNCHANGED apart
    \/ ReturnResult
       /\ UNCHANGED apart

SpecMatch == Init /\ [][MatchNext]_vars

\* the loop runs on: a statement of the call that is due is executed.  A
\* statement of the loop is enabled exactly where the call stands at it (it
\* always moves pc), so its weak fairness is written with that guard for
\* ENABLED; WF_vars(TrySynthetic) and WF_vars(TryDirect) are the same formulas.
SpecMatchFair ==
    /\ SpecMatch
    /\ []<>(~Matching("synthetic")) \/ []<><<TrySynthetic>>_vars
    /\ []<>(~Matching("direct")) \/ []<><<TryDirect>>_vars
    /\ WF_vars(ReturnResult /\ UNCHANGED apart)

(***************************************************************************)
(* exchange.ts and database: the age of the rows matched.  Every orders    *)
(* row has a createdAt; executeMarket selects the rows of the market with  *)
(* no ORDER BY and hands them to executeMatching without that column.      *)
(* The book is drawn as before and createdAt[k] is the creation time of    *)
(* row k, the rows having been created one after another in any order.     *)
(***************************************************************************)
CreationOrders(n) ==
    {a \in [1..n -> 1..n] : \A j, k \in 1..n : a[j] = a[k] => j = k}

\* executeMarket, steps 3 to 5, with the createdAt of the rows read kept
\* beside the call
StartMatchingRows(m, book, createdAt) ==
    /\ last.op = "init"
    /\ last' = [op |-> "executeMatching", pc |-> "synthetic", marketId |-> m,
                orders |-> [k \in 1..Len(book) |-> BookRow(m, k, book[k])],
                createdAt |-> createdAt,
                ms |-> InitialMatchState([k \in 1..Len(book) |->
                                             BookRow(m, k, book[k])]),
                result |-> EmptyResult]
    /\ UNCHANGED <<balance, locked, status, winningOutcomeId, orders, positions,
                   executions, nOrders, txn, pre>>

TiesNext ==
    \/ last.op = "init" /\ \E m \in Markets : \E book \in Books(m) :
                                \E createdAt \in CreationOrders(Len(book)) :
                                    StartMatchingRows(m, book, createdAt)
       /\ UNCHANGED apart
    \/ TrySynthetic
       /\ UNCHANGED apart
    \/ TryDirect
       /\ UNCHANGED apart
    \/ ReturnResult
       /\ UNCHANGED apart

SpecTies == Init /\ [][TiesNext]_vars

(***************************************************************************)
(* commands: the resolve subcommand and the select menu it opens.  Each    *)
(* reads the market, compares its oracleUserId with the id of the user     *)
(* of the interaction and replies without writing when they differ; the    *)
(* menu handler then calls resolveMarket.                                  *)
(***************************************************************************)

\* markets.oracleUserId as createMarket inserted it; no statement updates it
oracleUserId == [m \in Markets |-> IF m = "m1" THEN "alice" ELSE "bob"]

\* the oracle comparison taken as passed for every user
IsOracleAnyone(m, u) == TRUE

\* market.oracleUserId !== interaction.user.id, negated
IsOracle(m, u) == oracleUserId[m] = u

\* a reply of a command handler that wrote nothing
Reply(op, content) ==
    /\ last' = [op |-> op, result |-> content]
    /\ UNCHANGED <<balance, locked, status, winningOutcomeId, orders,
                   positions, executions, nOrders>>

\* /market resolve: the checks, then the select menu is shown
ResolveSubcommand(u, m) ==
    IF ~IsOracle(m, u)
    THEN Reply("resolve", "You are not the oracle for this market.")
    ELSE IF status[m] # "open"
    THEN Reply("resolve", "This market has already been resolved.")
    ELSE Reply("resolve", "Resolve Market")

\* the select menu's handler: the same checks, the outcome check, then
\* resolveMarket
HandleMarketResolveSelect(u, m, selectedOutcomeId) ==
    IF ~IsOracle(m, u)
    THEN Reply("handleMarketResolveSelect",
               "You are not the oracle for this market.")
    ELSE IF status[m] # "open"
    THEN Reply("handleMarketResolveSelect",
               "This market has already been resolved.")
    ELSE IF selectedOutcomeId \notin SeqRange(OutcomeIds(m))
    THEN Reply("handleMarketResolveSelect", "Invalid resolution option.")
    ELSE ResolveMarket(m, selectedOutcomeId)

\* orders are placed and matched, and any user may send either resolve
\* interaction for any market
OracleNext ==
    \/ \E u \in Users, m \in Markets : \E o \in OutcomeInputs(m) :
          \E in \in OrderInputs(m) :
             CreateOrder(u, m, o, in[1], in[2], in[3]) /\ UNCHANGED <<txn, pre>>
       /\ UNCHANGED apart
    \/ \E m \in Markets : ExecuteMarket(m) /\ UNCHANGED <<txn, pre>>
       /\ UNCHANGED apart
    \/ \E u \in Users, m \in Markets :
          ResolveSubcommand(u, m) /\ UNCHANGED <<txn, pre>>
       /\ UNCHANGED apart
    \/ \E u \in Users, m \in Markets : \E w \in OutcomeInputs(m) :
          HandleMarketResolveSelect(u, m, w) /\ UNCHANGED <<txn, pre>>
       /\ UNCHANGED apart

SpecOracle == Init /\ [][OracleNext]_vars

(***************************************************************************)
(* exchange.ts: generateId.  The id is the time since EPOCH shifted left   *)
(* by 12 bits, with sequence++ % 4096 in the low 12 bits, printed in       *)
(* decimal.  now is kept at or after EPOCH, so the timestamp is not        *)
(* negative; the clock moves during the first calls and the rest of the    *)
(* calls fall within one millisecond.  sequence counts the calls made.     *)
(***************************************************************************)
MaxNow == 1

TickWindow == 2

MaxCalls == 4100

\* the ids of the first MaxIssued calls are kept in issued
MaxIssued == 3

\* BigInt.toString(): the decimal digits, most significant first
RECURSIVE toString(_)
toString(n) ==
    IF n < 0 THEN <<"-">> \o toString(-n)
    ELSE IF n < 10 THEN <<n>>
    ELSE Append(toString(n \div 10), n % 10)

\* sequence++ % 4096
SequenceBits(seq) == seq % 4096

\* (BigInt(timestamp) << 12n) | BigInt(seq): the low 12 bits of the shifted
\* timestamp are 0 and seq is below 4096, so the or is a sum
SnowflakeOf(timestamp, seq) == toString(timestamp * 4096 + seq)

generateId ==
    /\ sequence < MaxCalls
    /\ sequence' = sequence + 1
    /\ last' = [op |-> "generateId",
                result |-> SnowflakeOf(now, SequenceBits(sequence))]
    /\ issued' = IF Len(issued) < MaxIssued
                 THEN Append(issued, SnowflakeOf(now, SequenceBits(sequence)))
                 ELSE issued
    /\ UNCHANGED <<balance, locked, status, winningOutcomeId, orders, positions,
                   executions, nOrders, txn, pre, reactions, now, semaphore,
                   channels>>

\* Date.now() moves on by a millisecond
Tick ==
    /\ now < MaxNow
    /\ sequence < TickWindow
    /\ now' = now + 1
    /\ UNCHANGED <<balance, locked, status, winningOutcomeId, orders, positions,
                   executions, nOrders, last, txn, pre, reactions, sequence,
                   issued, semaphore, channels>>

IdNext == generateId \/ Tick

SpecIds == Init /\ [][IdNext]_vars

(***************************************************************************)
(* database: createOrder called with any numbers.  createOrder is an       *)
(* exported function that takes quantity and price as they are passed;     *)
(* the orders it is given here include quantities and prices outside the   *)
(* ranges of the command options.                                          *)
(***************************************************************************)
AnyQtys == {-5, 0, 5}

AnyPrices == {Num(0), Rat(3, 10), Num(1)}

\* createOrder admissions in one behaviour
AdmitOrders == 2

AdmitNext ==
    \/ \E u \in Users : \E o \in OutcomeInputs("m1") :
          \E d \in Directions, q \in AnyQtys, p \in AnyPrices :
             /\ nOrders < AdmitOrders
             /\ CreateOrder(u, "m1", o, d, q, p)
             /\ UNCHANGED <<txn, pre>>
       /\ UNCHANGED apart
    \/ \E u \in Users : CancelOrder(u, "m1") /\ UNCHANGED <<txn, pre>>
       /\ UNCHANGED apart

SpecAdmit == Init /\ [][AdmitNext]_vars

(***************************************************************************)
(* exchange.ts: validateOrder and calculateEscrow called on their own.     *)
(* last holds the call and what it returned.  A quantity passed to         *)
(* validateOrder is any number, here a rational; Number.isInteger holds of *)
(* those with denominator 1.                                               *)
(***************************************************************************)
CallQuantities == {Num(-5), Num(0), Rat(1, 2), Num(1), Rat(11, 2), Num(10)}

CallPrices ==
    {Num(-1), Num(0), Rat(1, 100), Rat(1, 2), Rat(99, 100), Num(1), Rat(3, 2)}

CallOwned == {Num(-10), Num(0), Rat(5, 2), Num(5), Num(10), Num(15)}

\* the integers among the quantities
CallIntegers == {q[1] : q \in {x \in CallQuantities : x[2] = 1}}

\* the price test without its upper bound
PriceOutOfRangeBelow(price) == RLe(price, Zero)

\* price <= 0 || price >= 1
PriceOutOfRange(price) == RLe(price, Zero) \/ RLe(One, price)

validateOrder(direction, quantity, price) ==
    IF RLe(quantity, Zero) \/ quantity[2] # 1
    THEN [valid |-> FALSE, error |-> "Quantity must be a positive integer"]
    ELSE IF PriceOutOfRange(price)
    THEN [valid |-> FALSE, error |-> "Price must be between 0 and 1 (exclusive)"]
    ELSE [valid |-> TRUE]

CallValidateOrder(d, q, p) ==
    /\ last' = [op |-> "validateOrder", direction |-> d, quantity |-> q,
                price |-> p, result |-> validateOrder(d, q, p)]
    /\ UNCHANGED <<balance, locked, status, winningOutcomeId, orders, positions,
                   executions, nOrders, txn, pre>>

CallCalculateEscrow(d, q, p, owned) ==
    /\ last' = [op |-> "calculateEscrow", direction |-> d, quantity |-> q,
                price |-> p, currentlyOwned |-> owned,
                result |-> calculateEscrow(d, q, p, owned)]
    /\ UNCHANGED <<balance, locked, status, winningOutcomeId, orders, positions,
                   executions, nOrders, txn, pre>>

CallsNext ==
    \/ \E d \in Directions, q \in CallQuantities, p \in CallPrices :
          CallValidateOrder(d, q, p)
       /\ UNCHANGED apart
    \/ \E d \in Directions, q \in CallIntegers, p \in CallPrices, owned \in CallOwned :
          CallCalculateEscrow(d, q, p, owned)
       /\ UNCHANGED apart

SpecCalls == Init /\ [][CallsNext]_vars

(***************************************************************************)
(* Quantities the properties are stated over.                              *)
(***************************************************************************)
RECURSIVE SumOver(_, _)
SumOver(f, S) ==
    IF S = {} THEN Zero
    ELSE LET x == CHOOSE y \in S : TRUE
         IN  RAdd(f[x], SumOver(f, S \ {x}))

SumBalances == SumOver(balance, Users)

EscrowOf(u) == SumEscrow({r \in orders : r.userId = u})

\* the sum over all users of holdings[o] in market m
RECURSIVE TotalHeldIn(_, _)
TotalHeldIn(S, o) ==
    IF S = {} THEN Zero
    ELSE LET p == CHOOSE x \in S : TRUE
         IN  RAdd(Held(p.holdings, o), TotalHeldIn(S \ {p}, o))

TotalHeld(m, o) == TotalHeldIn({p \in positions : p.marketId = m}, o)

\* a direct execution records the seller with a negative quantity
IsDirect(e) == \E k \in 1..Len(e.participants) : RLt(e.participants[k].quantity, Zero)

\* the number of baskets the synthetic executions of market m minted
RECURSIVE MintedIn(_, _)
MintedIn(execs, m) ==
    IF execs = <<>> THEN Zero
    ELSE RAdd(IF Head(execs).marketId = m /\ ~IsDirect(Head(execs))
              THEN Head(execs).participants[1].quantity ELSE Zero,
              MintedIn(Tail(execs), m))

MintedBaskets(m) == MintedIn(executions, m)

\* the rows of the book still open on outcome o in direction dir
OpenOn(ofm, o, dir) ==
    {i \in 1..Len(ofm) : /\ ofm[i].outcomeId = o
                         /\ ofm[i].direction = dir
                         /\ ofm[i].remainingQuantity > 0}

\* the highest-priced open buys and the lowest-priced open sells on outcome o
BestBuys(ofm, o) ==
    {i \in OpenOn(ofm, o, "buy") :
        \A j \in OpenOn(ofm, o, "buy") : RLe(ofm[j].price, ofm[i].price)}

BestSells(ofm, o) ==
    {i \in OpenOn(ofm, o, "sell") :
        \A j \in OpenOn(ofm, o, "sell") : RLe(ofm[i].price, ofm[j].price)}

\* the best buy and the best sell of outcome o cross
Crossed(ofm, o) ==
    \E b \in BestBuys(ofm, o), s \in BestSells(ofm, o) : RLe(ofm[s].price, ofm[b].price)

MinOf(a, b) == IF a < b THEN a ELSE b

\* the sum of remainingQuantity over the book
RECURSIVE TotalRemaining(_)
TotalRemaining(ofm) ==
    IF ofm = <<>> THEN 0 ELSE Head(ofm).remainingQuantity + TotalRemaining(Tail(ofm))

\* a step of the matching call from position pc
MatchingStep(pc) == Matching(pc) /\ last' # last

\* executeMarket run alone on the tables db: every outcome it can have
SerialExecute(db, m) ==
    IF status[m] # "open" \/ {r \in db.orders : r.marketId = m} = {} THEN {db}
    ELSE {Settle(db, m, executeMatching(rows, OutcomeIds(m), m)) :
             rows \in RowOrders({r \in db.orders : r.marketId = m})}

\* two executeMarket transactions on market m, one after the other
SerialTwice(db, m) == UNION {SerialExecute(d, m) : d \in SerialExecute(db, m)}

\* both transactions were op and have ended
BothDone(op) == \A t \in Txns : txn[t].pc = "done" /\ txn[t].op = op

OrdersOf(rows, u, m) == {r \in rows : r.userId = u /\ r.marketId = m}

(***************************************************************************)
(* C1: after any sequence of createOrder, executeMarket, cancelOrder and   *)
(* resolveMarket transactions, every user has 0 <= locked <= balance.      *)
(* The code breaks it: see C2.                                             *)
(***************************************************************************)
C1_LockedWithinBalance ==
    \A u \in Users : RLe(Zero, locked[u]) /\ RLe(locked[u], balance[u])

(***************************************************************************)
(* C2: after every committed transaction each user's locked equals the sum *)
(* of escrowAmount over the resting orders the user owns, in all markets.  *)
(* The code breaks it: a partial fill releases part of locked and leaves   *)
(* the order's escrowAmount as it was.                                     *)
(***************************************************************************)
C2_LockedEqualsEscrow == \A u \in Users : locked[u] = EscrowOf(u)

(***************************************************************************)
(* C3: basket conservation.  In an open market every outcome has the same  *)
(* total holdings over all users, namely the number of baskets minted: a   *)
(* direct match changes no total and a synthetic match of quantity q       *)
(* raises the total of every outcome, participating or not, by q.          *)
(***************************************************************************)
C3_BasketConservation ==
    \A m \in Markets : status[m] = "open" =>
        \A o \in SeqRange(OutcomeIds(m)) : TotalHeld(m, o) = MintedBaskets(m)

\* an open market where a basket was minted from fewer outcomes than the
\* market has, so that surplus contracts were handed out
C3_Witness ==
    /\ last = [op |-> "executeMarket", result |-> "ok"]
    /\ \E k \in 1..Len(executions) :
          /\ status[executions[k].marketId] = "open"
          /\ ~IsDirect(executions[k])
          /\ Len(executions[k].participants)
                 < Len(OutcomeIds(executions[k].marketId))

(***************************************************************************)
(* C4: the sum of all balances plus the escrowAmount of all resting orders *)
(* is the same before and after every executeMarket transaction.           *)
(* The code breaks it.                                                     *)
(***************************************************************************)
CurrencyTotal == RAdd(SumBalances, SumEscrow(orders))

C4_CurrencyConserved ==
    [][last'.op = "executeMarket" => CurrencyTotal' = CurrencyTotal]_vars

(***************************************************************************)
(* C5: the exchange never creates currency: the sum of all balances never  *)
(* exceeds its value before the first order, and when only direct matches  *)
(* occurred it is back at that value once the markets are resolved.        *)
(* The code breaks it.                                                     *)
(***************************************************************************)
C5_NoCurrencyCreated ==
    /\ RLe(SumBalances, SumOver([u \in Users |-> Num(InitBalance)], Users))
    /\ (/\ \A k \in 1..Len(executions) :
              IsDirect(executions[k]) /\ status[executions[k].marketId] = "resolved"
        /\ orders = {})
       => SumBalances = SumOver([u \in Users |-> Num(InitBalance)], Users)

(***************************************************************************)
(* C6: at most one order exists per (userId, marketId) in every reachable  *)
(* state, whether the createOrder transactions run one at a time or        *)
(* overlap.  When two createOrder transactions of one user for one market  *)
(* overlap, the user having no order there and balance enough for one,     *)
(* exactly one of them succeeds and exactly one order is persisted; and    *)
(* as long as nothing was filled, every user's locked is the escrow of the *)
(* orders persisted, so it grew by the one order's escrow only.            *)
(***************************************************************************)
C6_OneOrderPerUserMarket ==
    /\ \A u \in Users, m \in Markets : Cardinality(OrdersOf(orders, u, m)) <= 1
    /\ executions = <<>> => \A u \in Users : locked[u] = EscrowOf(u)
    /\ \A u \in Users, m \in Markets :
          (/\ BothDone("createOrder")
           /\ \A t \in Txns : txn[t].u = u /\ txn[t].m = m
           /\ OrdersOf(pre.orders, u, m) = {}
           /\ RLe(Num(7), RSub(pre.balance[u], pre.locked[u])))
          => /\ Cardinality({t \in Txns : txn[t].result = "ok"}) = 1
             /\ Cardinality(OrdersOf(orders, u, m)) = 1

\* two overlapping createOrder transactions of one user for one market both
\* passed the existing-order check, and the later insert met the unique index
C6_Witness ==
    /\ BothDone("createOrder")
    /\ txn["t1"].u = txn["t2"].u /\ txn["t1"].m = txn["t2"].m
    /\ {txn[t].result : t \in Txns} = {"ok", "unique violation"}

(***************************************************************************)
(* C7: with the operations executed one at a time, a resolved market has   *)
(* no orders and no positions.                                             *)
(***************************************************************************)
C7_ResolvedMarketEmpty ==
    \A m \in Markets : status[m] = "resolved" =>
        /\ ~\E r \in orders : r.marketId = m
        /\ ~\E p \in positions : p.marketId = m

\* a market that traded and had an order resting was resolved, and a later
\* createOrder on it was turned away
C7_Witness ==
    /\ \E m \in Markets :
          /\ status[m] = "resolved"
          /\ \E k \in 1..Len(executions) : executions[k].marketId = m
    /\ last = [op |-> "createOrder", result |-> "Market not open"]

(***************************************************************************)
(* C8: mutations of one market are serialised.  When two executeMarket     *)
(* transactions for the same market overlap, the balances, locked amounts, *)
(* positions, orders and executions they leave are those of the two run    *)
(* one after the other, in some order.                                     *)
(* The code breaks it: both read the same resting orders and both settle   *)
(* them.                                                                   *)
(***************************************************************************)
C8_MarketSerialised ==
    \A m \in Markets :
        (BothDone("executeMarket") /\ \A t \in Txns : txn[t].m = m)
        => Db \in SerialTwice(pre, m)

(***************************************************************************)
(* C9: when one user's createOrder transactions in two different markets   *)
(* overlap and both are admitted, locked <= balance holds for the user     *)
(* after both have committed.                                              *)
(* The code breaks it: both read the users row before either adds its      *)
(* escrow to locked.                                                       *)
(***************************************************************************)
C9_ConcurrentAdmission ==
    \A u \in Users :
        (/\ BothDone("createOrder")
         /\ \A t \in Txns : txn[t].u = u /\ txn[t].result = "ok"
         /\ txn["t1"].m # txn["t2"].m)
        => RLe(locked[u], balance[u])

(***************************************************************************)
(* C10: the direct fill scenario.  Alice and Bob have balance 100, Alice   *)
(* rests buy Yes 10 @ 0.70 and Bob sell Yes 10 @ 0.30 owning none; after   *)
(* executeMarket there is one execution at 0.50, Alice has balance 95,     *)
(* locked 0 and {Yes: 10}, Bob has balance 105, locked 0 and {Yes: -10},   *)
(* both orders are gone and the balances still sum to 200.                 *)
(* The code breaks it: it leaves Alice 97 and Bob 112.                     *)
(***************************************************************************)
C10_Before ==
    /\ balance = [u \in Users |-> Num(100)]
    /\ positions = {}
    /\ executions = <<>>
    /\ status["m1"] = "open"
    /\ {[userId |-> r.userId, outcomeId |-> r.outcomeId, direction |-> r.direction,
         quantity |-> r.quantity, price |-> r.price] :
            r \in {x \in orders : x.marketId = "m1"}}
       = {[userId |-> "alice", outcomeId |-> "Yes", direction |-> "buy",
           quantity |-> 10, price |-> Rat(70, 100)],
          [userId |-> "bob", outcomeId |-> "Yes", direction |-> "sell",
           quantity |-> 10, price |-> Rat(30, 100)]}
    /\ ~\E r \in orders : r.marketId # "m1"

C10_After ==
    /\ Len(executions) = 1
    /\ \A k \in 1..Len(executions[1].participants) :
          executions[1].participants[k].effectivePrice = Rat(50, 100)
    /\ balance["alice"] = Num(95) /\ locked["alice"] = Zero
    /\ HoldingsOf(positions, "alice", "m1") = [o \in {"Yes"} |-> Num(10)]
    /\ balance["bob"] = Num(105) /\ locked["bob"] = Zero
    /\ HoldingsOf(positions, "bob", "m1") = [o \in {"Yes"} |-> Num(-10)]
    /\ orders = {}
    /\ SumBalances = Num(200)

C10_DirectFillScenario ==
    [][(C10_Before /\ last'.op = "executeMarket" /\ last'.result = "ok"
        /\ executions' # executions) => C10_After']_vars

(***************************************************************************)
(* C11: the direct match rule.  In the direct attempt of a pass, when on   *)
(* some outcome the highest-priced open buy and the lowest-priced open     *)
(* sell satisfy buy price >= sell price, one such pair is matched: the     *)
(* quantity q is the minimum of their remaining quantities, both remaining *)
(* quantities drop by q, the buyer gains +q and the seller -q contracts of *)
(* the outcome, and one execution is recorded with the two participants at *)
(* the midpoint price.  When no outcome has buy >= sell nothing is         *)
(* executed.                                                               *)
(***************************************************************************)
C11_DirectFill(ms, ms2, marketId, o, b, s, q, mid) ==
    /\ Len(ms2.executions) = Len(ms.executions) + 1
    /\ SubSeq(ms2.executions, 1, Len(ms.executions)) = ms.executions
    /\ ms2.executions[Len(ms2.executions)].marketId = marketId
    /\ Len(ms2.executions[Len(ms2.executions)].participants) = 2
    /\ SeqRange(ms2.executions[Len(ms2.executions)].participants)
         = {[userId |-> ms.ofm[b].userId, outcomeId |-> o, quantity |-> Num(q),
             effectivePrice |-> mid],
            [userId |-> ms.ofm[s].userId, outcomeId |-> o, quantity |-> Num(-q),
             effectivePrice |-> mid]}
    /\ ms2.ofm = [ms.ofm EXCEPT ![b].remainingQuantity = @ - q,
                                ![s].remainingQuantity = @ - q]
    /\ Len(ms2.positionUpdates) = Len(ms.positionUpdates) + 2
    /\ {ms2.positionUpdates[k] :
           k \in (Len(ms.positionUpdates) + 1)..Len(ms2.positionUpdates)}
         = {[userId |-> ms.ofm[b].userId, outcomeId |-> o, quantityDelta |-> Num(q)],
            [userId |-> ms.ofm[s].userId, outcomeId |-> o, quantityDelta |-> Num(-q)]}

C11_DirectRule(ms, ms2, marketId) ==
    IF \E o \in SeqRange(OutcomeIds(marketId)) : Crossed(ms.ofm, o)
    THEN \E o \in SeqRange(OutcomeIds(marketId)) :
         \E b \in BestBuys(ms.ofm, o), s \in BestSells(ms.ofm, o) :
            /\ RLe(ms.ofm[s].price, ms.ofm[b].price)
            /\ C11_DirectFill(ms, ms2, marketId, o, b, s,
                          MinOf(ms.ofm[b].remainingQuantity,
                                ms.ofm[s].remainingQuantity),
                          RDiv(RAdd(ms.ofm[b].price, ms.ofm[s].price), Num(2)))
    ELSE /\ ms2.executions = ms.executions
         /\ ms2.ofm = ms.ofm
         /\ ms2.positionUpdates = ms.positionUpdates
         /\ ms2.changes = ms.changes

C11_DirectMatchRule ==
    [][MatchingStep("direct") => C11_DirectRule(last.ms, last'.ms, last.marketId)]_vars

\* a direct attempt has just matched a pair and filled one of the two in part
C11_Witness ==
    /\ Matching("synthetic")
    /\ last.ms.executions # <<>>
    /\ IsDirect(last.ms.executions[Len(last.ms.executions)])
    /\ \E i \in 1..Len(last.ms.ofm) :
          /\ last.ms.ofm[i].remainingQuantity > 0
          /\ last.ms.ofm[i].remainingQuantity < last.ms.ofm[i].quantity

(***************************************************************************)
(* C12: in a synthetic match of quantity q, every participating buyer,     *)
(* one per outcome of S, has the balance delta lowered by exactly          *)
(* q * bidPrice, the locked delta lowered by exactly q * bidPrice, gains q *)
(* contracts of the outcome bid on, q of the order's remaining quantity is *)
(* used, and the buyer is recorded in the single execution with            *)
(* effectivePrice equal to the bid price.                                  *)
(***************************************************************************)
C12_ChangeOf(changes, u, field) ==
    IF \E k \in 1..Len(changes) : changes[k].userId = u
    THEN changes[CHOOSE k \in 1..Len(changes) : changes[k].userId = u][field]
    ELSE Zero

C12_NewUpdates(ms, ms2) ==
    SubSeq(ms2.positionUpdates, Len(ms.positionUpdates) + 1, Len(ms2.positionUpdates))

C12_Participant(ms, ms2, p, i, q) ==
    /\ q > 0
    /\ ms.ofm[i].userId = p.userId
    /\ p.effectivePrice = ms.ofm[i].price
    /\ p.quantity = Num(q)
    /\ RAdd(C12_ChangeOf(ms2.changes, p.userId, "balanceDelta"),
            RMul(Num(q), ms.ofm[i].price))
         = C12_ChangeOf(ms.changes, p.userId, "balanceDelta")
    /\ RAdd(C12_ChangeOf(ms2.changes, p.userId, "lockedDelta"),
            RMul(Num(q), ms.ofm[i].price))
         = C12_ChangeOf(ms.changes, p.userId, "lockedDelta")
    /\ SumDeltas(C12_NewUpdates(ms, ms2), p.userId, p.outcomeId) = Num(q)

C12_Execution(ms, ms2, e) ==
    /\ \A k, j \in 1..Len(e.participants) :
          /\ e.participants[k].quantity = e.participants[j].quantity
          /\ k # j => e.participants[k].outcomeId # e.participants[j].outcomeId
    /\ \A k \in 1..Len(e.participants) :
          \E i \in OpenOn(ms.ofm, e.participants[k].outcomeId, "buy") :
              C12_Participant(ms, ms2, e.participants[k], i,
                  ms.ofm[i].remainingQuantity - ms2.ofm[i].remainingQuantity)

C13_BestPrice(ofm, o) == ofm[CHOOSE i \in BestBuys(ofm, o) : TRUE].price

RECURSIVE C13_SumBest(_, _)
C13_SumBest(ofm, S) ==
    IF S = {} THEN Zero
    ELSE RAdd(C13_BestPrice(ofm, CHOOSE o \in S : TRUE),
              C13_SumBest(ofm, S \ {CHOOSE o \in S : TRUE}))

C13_Bidding(ofm, outcomeIds) ==
    {o \in SeqRange(outcomeIds) : OpenOn(ofm, o, "buy") # {}}

\* the rows whose remaining quantity the step changed
C13_Decremented(ms, ms2) ==
    {i \in 1..Len(ms.ofm) : ms2.ofm[i].remainingQuantity # ms.ofm[i].remainingQuantity}

\* S is a prefix of the bidding outcomes in descending price order, and the
\* shortest one whose prices sum to 1.0 or more
C13_IsPrefix(ofm, S, bidding) ==
    /\ S # {} /\ S \subseteq bidding
    /\ \A o \in S, x \in bidding \ S : RLe(C13_BestPrice(ofm, x), C13_BestPrice(ofm, o))
    /\ RLe(One, C13_SumBest(ofm, S))
    /\ \E o \in S :
          /\ \A x \in S : RLe(C13_BestPrice(ofm, o), C13_BestPrice(ofm, x))
          /\ RLt(C13_SumBest(ofm, S \ {o}), One)

C13_Selected(ms, ms2, D, bidding) ==
    /\ \A i \in D : i \in BestBuys(ms.ofm, ms.ofm[i].outcomeId)
    /\ \A i, j \in D : i # j => ms.ofm[i].outcomeId # ms.ofm[j].outcomeId
    /\ C13_IsPrefix(ms.ofm, {ms.ofm[i].outcomeId : i \in D}, bidding)
    /\ \E i \in D :
          /\ \A j \in D : ms.ofm[i].remainingQuantity <= ms.ofm[j].remainingQuantity
          /\ \A j \in D : ms2.ofm[j].remainingQuantity
                            = ms.ofm[j].remainingQuantity - ms.ofm[i].remainingQuantity
    /\ Len(ms2.executions) = Len(ms.executions) + 1
    /\ {p.outcomeId : p \in SeqRange(ms2.executions[Len(ms2.executions)].participants)}
         = {ms.ofm[i].outcomeId : i \in D}

C13_Rule(ms, ms2, bidding) ==
    IF RLt(C13_SumBest(ms.ofm, bidding), One)
    THEN /\ ms2.ofm = ms.ofm
         /\ ms2.executions = ms.executions
         /\ ~ms2.matchFound
    ELSE C13_Selected(ms, ms2, C13_Decremented(ms, ms2), bidding)

C13_SyntheticSelection ==
    [][MatchingStep("synthetic")
       => C13_Rule(last.ms, last'.ms,
                   C13_Bidding(last.ms.ofm, OutcomeIds(last.marketId)))]_vars

\* three outcomes are bid on, the two highest bids reach 1.0 and were matched
\* for the smaller of their quantities, the third was left out
C13_Witness ==
    /\ Matching("direct")
    /\ last.marketId = "m2"
    /\ Len(last.ms.executions) = 1
    /\ Len(last.ms.executions[1].participants) = 2
    /\ {last.orders[i].outcomeId : i \in 1..Len(last.orders)}
         = SeqRange(OutcomeIds("m2"))
    /\ \E i \in 1..Len(last.ms.ofm) :
          /\ last.ms.ofm[i].remainingQuantity = 5
          /\ last.ms.ofm[i].quantity = 10

(***************************************************************************)
(* C14: surplus distribution.  In a synthetic match of quantity q with     *)
(* participating set S, for every outcome of the market outside S each     *)
(* participant receives q * bidPrice / (sum of the bid prices in S)        *)
(* contracts of that outcome, so that the shares of each such outcome sum  *)
(* to exactly q; when S holds every outcome the only position updates are  *)
(* the q contracts of the outcome each participant bid on.                 *)
(***************************************************************************)
RECURSIVE C14_SumBids(_)
C14_SumBids(parts) ==
    IF parts = <<>> THEN Zero
    ELSE RAdd(Head(parts).effectivePrice, C14_SumBids(Tail(parts)))

RECURSIVE C14_SumShares(_, _, _)
C14_SumShares(updates, parts, o) ==
    IF parts = <<>> THEN Zero
    ELSE RAdd(SumDeltas(updates, Head(parts).userId, o),
              C14_SumShares(updates, Tail(parts), o))

C14_Surplus(updates, parts, outside) ==
    /\ \A o \in outside :
          /\ \A k \in 1..Len(parts) :
                SumDeltas(updates, parts[k].userId, o)
                  = RDiv(RMul(parts[k].quantity, parts[k].effectivePrice),
                         C14_SumBids(parts))
          /\ C14_SumShares(updates, parts, o) = parts[1].quantity
    /\ Len(updates) = Len(parts) * (1 + Cardinality(outside))

C14_SurplusDistribution ==
    [][(MatchingStep("synthetic") /\ last'.ms.executions # last.ms.executions)
       => C14_Surplus(C12_NewUpdates(last.ms, last'.ms),
                      last'.ms.executions[Len(last'.ms.executions)].participants,
                      SeqRange(OutcomeIds(last.marketId))
                        \ {p.outcomeId :
                             p \in SeqRange(last'.ms.executions[
                                      Len(last'.ms.executions)].participants)})]_vars

\* baskets of a three-outcome market were minted from two bids at unequal
\* prices that sum to more than 1, and the third outcome was handed out
C14_Witness ==
    /\ Matching("direct")
    /\ last.marketId = "m2"
    /\ last.ms.matchFound
    /\ Len(last.ms.executions[Len(last.ms.executions)].participants) = 2
    /\ C14_SumBids(last.ms.executions[Len(last.ms.executions)].participants)
         = Rat(12, 10)

(***************************************************************************)
(* C15: direct matches take precedence over synthetic ones.  A synthetic   *)
(* match is executed in a pass only when no direct match is possible: a    *)
(* buy order that crosses a resting sell on its own outcome is filled      *)
(* against that sell and is not consumed by a basket mint.                 *)
(* The code breaks it: each pass makes the synthetic attempt first.        *)
(***************************************************************************)
C15_DirectBeforeSynthetic ==
    [][(MatchingStep("synthetic") /\ last'.ms.executions # last.ms.executions)
       => ~\E o \in SeqRange(OutcomeIds(last.marketId)) : Crossed(last.ms.ofm, o)]_vars

(***************************************************************************)
(* C16: pro-rata allocation.  When several buy orders on the same outcome  *)
(* share the best price and the sells that cross them can fill only part   *)
(* of their total demand, each of those buyers is filled                   *)
(* floor(own quantity * available / total demand) contracts.               *)
(* The code breaks it: the first of the tied buy orders is filled first.   *)
(***************************************************************************)
C16_Rows(rows, dir) == {i \in 1..Len(rows) : rows[i].direction = dir}

RECURSIVE C16_Quantity(_, _)
C16_Quantity(rows, S) ==
    IF S = {} THEN 0
    ELSE rows[CHOOSE i \in S : TRUE].quantity
         + C16_Quantity(rows, S \ {CHOOSE i \in S : TRUE})

\* every order is on one outcome, two or more buys share one price, every
\* sell crosses it, and the sells cover only part of the demand
C16_TiedBook(rows) ==
    /\ \A i, j \in 1..Len(rows) : rows[i].outcomeId = rows[j].outcomeId
    /\ Cardinality(C16_Rows(rows, "buy")) >= 2
    /\ C16_Rows(rows, "sell") # {}
    /\ \A i, j \in C16_Rows(rows, "buy") : rows[i].price = rows[j].price
    /\ \A i \in C16_Rows(rows, "buy"), j \in C16_Rows(rows, "sell") :
          RLe(rows[j].price, rows[i].price)
    /\ C16_Quantity(rows, C16_Rows(rows, "sell"))
         < C16_Quantity(rows, C16_Rows(rows, "buy"))

C16_ProRata ==
    (Matching("returned") /\ C16_TiedBook(last.orders))
    => \A i \in C16_Rows(last.orders, "buy") :
          last.orders[i].quantity - last.ms.ofm[i].remainingQuantity
            = (last.orders[i].quantity
                 * C16_Quantity(last.orders, C16_Rows(last.orders, "sell")))
              \div C16_Quantity(last.orders, C16_Rows(last.orders, "buy"))

(***************************************************************************)
(* C17: executeMatching terminates.  Every attempt of the loop that finds  *)
(* a match lowers the total remaining quantity of the book by at least 1,  *)
(* a pass that finds a match is followed by another pass, the loop exits   *)
(* after the first pass that finds none, and the call returns.             *)
(***************************************************************************)
C17_PassDecreases ==
    /\ (MatchingStep("synthetic") \/ MatchingStep("direct"))
       => IF last'.ms.executions # last.ms.executions
          THEN /\ TotalRemaining(last'.ms.ofm) <= TotalRemaining(last.ms.ofm) - 1
               /\ last'.ms.matchFound
          ELSE /\ last'.ms.ofm = last.ms.ofm
               /\ MatchingStep("synthetic") => ~last'.ms.matchFound
               /\ MatchingStep("direct") => last'.ms.matchFound = last.ms.matchFound
    /\ MatchingStep("direct")
       => last'.pc = (IF last'.ms.matchFound THEN "synthetic" ELSE "compile")

C17_MatchingTerminates ==
    /\ [][C17_PassDecreases]_vars
    /\ (last.op = "executeMatching") ~> Matching("returned")

\* the call returned after two attempts of the loop had found a match
C17_Witness ==
    /\ Matching("returned")
    /\ Len(last.result.executions) >= 2


(***************************************************************************)
(* C18: resolution payout.  A resolveMarket that resolves an open market   *)
(* changes the balance of every user with a position in it by exactly      *)
(* holdings[winningOutcomeId]: 0 when the key is absent, a debit when the  *)
(* holding is negative, nothing for the other outcomes; and it deletes     *)
(* every position of the market.                                           *)
(***************************************************************************)
C18_Resolves(m) == status[m] = "open" /\ status'[m] = "resolved"

C18_Payout(m, u) ==
    balance'[u] = RAdd(balance[u],
                       Held(HoldingsOf(positions, u, m), winningOutcomeId'[m]))

C18_ResolutionPayout ==
    [][\A m \in Markets :
          C18_Resolves(m)
          => /\ \A p \in positions : p.marketId = m => C18_Payout(m, p.userId)
             /\ \A p \in positions' : p.marketId # m]_vars


(***************************************************************************)
(* C19: a market is resolved at most once, also when two resolveMarket     *)
(* calls race.  A resolved market stays resolved with the winning outcome  *)
(* it has; a call resolves only a market that is open when it commits, to  *)
(* an outcome of that market, and then pays every position once; a call    *)
(* that returns null, and every statement before the commit, changes no    *)
(* market field, balance, locked amount, order or position.                *)
(***************************************************************************)
C19_Returns(t, result) ==
    /\ txn[t].pc # "done"
    /\ txn'[t].pc = "done"
    /\ txn'[t].op = "resolveMarket"
    /\ txn'[t].result = result

C19_NothingChanged ==
    UNCHANGED <<balance, locked, status, winningOutcomeId, orders, positions>>

C19_PaidOnce(m) ==
    \A u \in Users :
        balance'[u] = RAdd(balance[u],
                           RMax(Zero, Held(HoldingsOf(positions, u, m),
                                           winningOutcomeId'[m])))

C19_Step ==
    /\ \A m \in Markets :
          status[m] = "resolved"
          => status'[m] = "resolved" /\ winningOutcomeId'[m] = winningOutcomeId[m]
    /\ \A t \in Txns :
          C19_Returns(t, "ok")
          => /\ status[txn'[t].m] = "open"
             /\ status'[txn'[t].m] = "resolved"
             /\ winningOutcomeId'[txn'[t].m] \in SeqRange(OutcomeIds(txn'[t].m))
             /\ C19_PaidOnce(txn'[t].m)
    /\ ~Setup /\ (\A t \in Txns : ~C19_Returns(t, "ok")) => C19_NothingChanged

C19_ResolvedOnce == [][C19_Step]_vars

\* two calls for m1 have returned, one resolved it and the other returned
\* null, and alice has been paid her 10 winning shares once
C19_Witness ==
    /\ \A t \in Txns : txn[t].pc = "done" /\ txn[t].op = "resolveMarket"
                       /\ txn[t].m = "m1"
    /\ \E t \in Txns : txn[t].result = "ok"
    /\ \E t \in Txns : txn[t].result = "null"
    /\ status["m1"] = "resolved"
    /\ balance["alice"] = RAdd(pre.balance["alice"], Num(10))


(***************************************************************************)
(* C20: round trip.  After a createOrder that succeeds, cancelOrder of the *)
(* same user and market, run next, gives back the balances, locked         *)
(* amounts, orders and positions (and executions) there were before the    *)
(* createOrder.  cancelOrder itself is the transaction AfterCancelOrder    *)
(* describes.                                                              *)
(***************************************************************************)
C20_Created == last'.op = "createOrder" /\ last'.result = "ok" /\ orders' # orders

C20_Cancelled == last'.op = "cancelOrder" /\ last'.result = "ok"

C20_DbAfter ==
    [balance |-> balance', locked |-> locked', orders |-> orders',
     positions |-> positions', executions |-> executions']

C20_Step ==
    /\ C20_Created
       => \A r \in orders' \ orders :
              AfterCancelOrder(C20_DbAfter, r.userId, r.marketId) = Db
    /\ C20_Cancelled
       => \E r \in orders : C20_DbAfter = AfterCancelOrder(Db, r.userId, r.marketId)

C20_RoundTrip == [][C20_Step]_vars

\* an order has just been admitted for a user who holds a position in the
\* market and has escrow locked for another order as well
C20_Witness ==
    /\ last.op = "createOrder" /\ last.result = "ok"
    /\ \E r \in orders :
          /\ \E p \in positions : p.userId = r.userId /\ p.marketId = r.marketId
          /\ RLt(r.escrowAmount, locked[r.userId])


(***************************************************************************)
(* C21: cancelOrder of a (user, market) pair with no resting order fails   *)
(* and changes nothing; a cancelOrder that succeeds leaves the pair        *)
(* without an order, so the same cancelOrder run next fails and leaves     *)
(* balance and locked as the first left them.                              *)
(***************************************************************************)
C21_HasOrder(rows, u, m) == \E r \in rows : r.userId = u /\ r.marketId = m

C21_Step ==
    last'.op = "cancelOrder" =>
    \A u \in Users, m \in Markets :
        CancelOrder(u, m)
        => IF C21_HasOrder(orders, u, m)
           THEN /\ last'.result = "ok"
                /\ ~C21_HasOrder(orders', u, m)
                /\ AfterCancelOrder([Db EXCEPT !.locked = locked', !.orders = orders'],
                                    u, m)
                   = [Db EXCEPT !.locked = locked', !.orders = orders']
           ELSE /\ last'.result = "No order found"
                /\ UNCHANGED <<balance, locked, status, winningOutcomeId, orders,
                               positions, executions>>

C21_CancelIdempotent == [][C21_Step]_vars

\* a cancelOrder has just failed on a book that an earlier cancelOrder
\* emptied: an order was admitted, nothing was filled and no market resolved
C21_Witness ==
    /\ last.op = "cancelOrder" /\ last.result = "No order found"
    /\ nOrders >= 1
    /\ orders = {}
    /\ executions = <<>>
    /\ \A m \in Markets : status[m] = "open"


(***************************************************************************)
(* C22: order admission rejects invalid parameters.  createOrder called    *)
(* with a quantity that is not a positive integer, or with a price that    *)
(* is not strictly between 0 and 1, fails, inserts no order and changes no *)
(* locked amount.                                                          *)
(***************************************************************************)
C22_Step ==
    last'.op = "createOrder" =>
    \A u \in Users, m \in Markets, o \in UNION {OutcomeInputs(x) : x \in Markets},
       d \in Directions, q \in AnyQtys, p \in AnyPrices :
        CreateOrder(u, m, o, d, q, p) /\ ~validateOrder(d, Num(q), p).valid
        => /\ last'.result # "ok"
           /\ orders' = orders
           /\ locked' = locked

C22_InvalidParametersRejected == [][C22_Step]_vars


(***************************************************************************)
(* C23: createOrder fails when the market is not open, when the outcome    *)
(* is not one of the market, when the user already has an order in the     *)
(* market, or when balance - locked is less than the escrow required; and  *)
(* a createOrder that fails changes no balance, locked amount, order or    *)
(* position.                                                               *)
(***************************************************************************)
C23_Escrow(u, m, o, d, q, p) ==
    calculateEscrow(d, q, p, Held(HoldingsOf(positions, u, m), o))

C23_MustFail(u, m, o, d, q, p) ==
    \/ status[m] # "open"
    \/ o \notin SeqRange(OutcomeIds(m))
    \/ \E r \in orders : r.userId = u /\ r.marketId = m
    \/ RLt(RSub(balance[u], locked[u]), C23_Escrow(u, m, o, d, q, p))

\* a createOrder that succeeds inserts the order it was called with: none of
\* the four conditions held of that call
C23_Step ==
    last'.op = "createOrder" =>
        /\ last'.result = "ok"
           => \A r \in orders' \ orders :
                  ~C23_MustFail(r.userId, r.marketId, r.outcomeId, r.direction,
                                r.quantity, r.price)
        /\ last'.result # "ok"
           => UNCHANGED <<balance, locked, orders, positions, status,
                          winningOutcomeId, executions>>

C23_CreateOrderFailures == [][C23_Step]_vars

\* a createOrder has just failed on the balance check, the user having
\* escrow locked for another order
C23_Witness ==
    /\ last.op = "createOrder" /\ last.result = "Insufficient balance"
    /\ \E r \in orders : RLt(Zero, locked[r.userId])


(***************************************************************************)
(* C24: a createOrder that succeeds inserts exactly one order, carrying    *)
(* the quantity and price it was called with and the escrow of the call    *)
(* (quantity * price for a buy, max(0, quantity - owned) * (1 - price) for *)
(* a sell, owned being the user's holdings of the outcome or 0), adds      *)
(* that escrow to the locked amount of the submitting user, and changes    *)
(* nothing else: no balance, no position, no other order, no other user's  *)
(* locked amount, and no execution is recorded.                            *)
(***************************************************************************)
C24_EscrowDue(r) ==
    IF r.direction = "buy"
    THEN RMul(Num(r.quantity), r.price)
    ELSE RMul(RMax(Zero, RSub(Num(r.quantity),
                              Held(HoldingsOf(positions, r.userId, r.marketId),
                                   r.outcomeId))),
              RSub(One, r.price))

C24_Admitted(r) ==
    /\ CreateOrder(r.userId, r.marketId, r.outcomeId, r.direction, r.quantity, r.price)
    /\ r.escrowAmount = C24_EscrowDue(r)
    /\ locked' = [locked EXCEPT ![r.userId] = RAdd(@, r.escrowAmount)]

C24_Step ==
    last'.op = "createOrder" /\ last'.result = "ok"
    => /\ orders \subseteq orders'
       /\ Cardinality(orders' \ orders) = 1
       /\ \A r \in orders' \ orders : C24_Admitted(r)
       /\ UNCHANGED <<balance, positions, executions, status, winningOutcomeId>>

C24_CreateOrderEffect == [][C24_Step]_vars

\* a sell covered by the seller's holdings has just been admitted with no
\* escrow, next to the order of another user
C24_Witness ==
    /\ last.op = "createOrder" /\ last.result = "ok"
    /\ \E r \in orders :
          /\ r.direction = "sell"
          /\ r.escrowAmount = Zero
          /\ RLt(Zero, Held(HoldingsOf(positions, r.userId, r.marketId), r.outcomeId))
    /\ Cardinality(orders) >= 2


(***************************************************************************)
(* C25: calculateEscrow returns quantity * price for a buy, whatever is    *)
(* owned, and max(0, quantity - currentlyOwned) * (1 - price) for a sell.  *)
(* For a positive integer quantity and a price strictly between 0 and 1    *)
(* the result is never negative, and it is 0 for a sell of at most the     *)
(* quantity owned.                                                         *)
(***************************************************************************)
C25_Called == last.op = "calculateEscrow"

C25_Short(quantity, owned) ==
    IF RLt(owned, Num(quantity)) THEN RSub(Num(quantity), owned) ELSE Zero

C25_Expected ==
    IF last.direction = "buy"
    THEN RMul(Num(last.quantity), last.price)
    ELSE RMul(C25_Short(last.quantity, last.currentlyOwned), RSub(One, last.price))

C25_InRange ==
    last.quantity >= 1 /\ RLt(Zero, last.price) /\ RLt(last.price, One)

C25_CalculateEscrow ==
    C25_Called
    => /\ last.result = C25_Expected
       /\ C25_InRange
          => /\ RLe(Zero, last.result)
             /\ last.direction = "sell" /\ RLe(Num(last.quantity), last.currentlyOwned)
                => last.result = Zero

\* a sell of 10 with 5 owned at 0.99 has returned the escrow of the 5 short
C25_Witness ==
    /\ C25_Called
    /\ last.direction = "sell"
    /\ last.quantity = 10
    /\ last.currentlyOwned = Num(5)
    /\ last.price = Rat(99, 100)
    /\ last.result = Rat(1, 20)


(***************************************************************************)
(* C26: validateOrder returns valid exactly when quantity is an integer    *)
(* of at least 1 and price is strictly between 0 and 1, for either         *)
(* direction; otherwise it returns valid = false with an error message.    *)
(***************************************************************************)
C26_Called == last.op = "validateOrder"

C26_Acceptable ==
    /\ last.quantity[2] = 1
    /\ last.quantity[1] >= 1
    /\ RLt(Zero, last.price)
    /\ RLt(last.price, One)

C27_Ends(t, op) == txn[t].pc # "done" /\ txn'[t].pc = "done" /\ txn'[t].op = op

C27_Step ==
    /\ \A t \in Txns :
          C27_Ends(t, "executeMarket") /\ txn'[t].result # "ok"
          => UNCHANGED <<balance, locked, positions, orders, executions>>
    /\ ~Setup /\ (\A t \in Txns : ~(txn[t].pc # "done" /\ txn'[t].pc = "done"
                                    /\ txn'[t].result = "ok"))
       => UNCHANGED <<balance, locked, positions, orders, executions>>

C27_AllOrNothing == [][C27_Step]_vars

\* an executeMarket has failed after its matching run found a fill: the
\* crossing orders are still on the book whole and nothing was recorded
C27_Witness ==
    /\ \E t \in Txns : /\ txn[t].pc = "done"
                       /\ txn[t].op = "executeMarket"
                       /\ txn[t].result = "error"
    /\ \A t \in Txns : txn[t].pc = "done" => txn[t].result # "ok"
    /\ executions = <<>>
    /\ positions = {}
    /\ \E b, s \in orders : /\ b.direction = "buy" /\ s.direction = "sell"
                            /\ b.outcomeId = s.outcomeId
                            /\ RLe(s.price, b.price)
                            /\ locked[b.userId] = b.escrowAmount
                            /\ locked[s.userId] = s.escrowAmount


(***************************************************************************)
(* C28: when no buy of an open market is priced at or above a sell on the  *)
(* same outcome and the best bids over its outcomes sum to less than 1,    *)
(* executeMarket records no execution and leaves every balance, locked     *)
(* amount, order and position as it was; a matching run over no orders     *)
(* returns the empty result.                                               *)
(***************************************************************************)
C28_Bids(m, o) ==
    {r \in orders : r.marketId = m /\ r.outcomeId = o /\ r.direction = "buy"}

C28_BestBid(m, o) ==
    IF C28_Bids(m, o) = {} THEN Zero
    ELSE (CHOOSE r \in C28_Bids(m, o) :
              \A x \in C28_Bids(m, o) : RLe(x.price, r.price)).price

RECURSIVE C28_SumBestBids(_, _)
C28_SumBestBids(m, ids) ==
    IF ids = <<>> THEN Zero
    ELSE RAdd(C28_BestBid(m, Head(ids)), C28_SumBestBids(m, Tail(ids)))

C28_NothingCrosses(m) ==
    \A b, s \in {r \in orders : r.marketId = m} :
        b.direction = "buy" /\ s.direction = "sell" /\ b.outcomeId = s.outcomeId
        => RLt(b.price, s.price)

C28_Quiet(m) ==
    /\ status[m] = "open"
    /\ C28_NothingCrosses(m)
    /\ RLt(C28_SumBestBids(m, OutcomeIds(m)), One)

C28_Step ==
    last'.op = "executeMarket" =>
        \A m \in Markets :
            ExecuteMarket(m) /\ C28_Quiet(m)
            => UNCHANGED <<balance, locked, orders, positions, executions,
                           status, winningOutcomeId>>

C28_NoMatchNoChange ==
    /\ [][C28_Step]_vars
    /\ \A m \in Markets : executeMatching(<<>>, OutcomeIds(m), m) = EmptyResult

\* executeMarket has run on two resting bids, Yes and No at 0.3 each, and
\* both rest with their escrow locked
C28_Witness ==
    /\ last.op = "executeMarket" /\ last.result = "ok"
    /\ Cardinality({r \in orders : r.marketId = "m1"}) = 2
    /\ \A r \in orders : r.marketId = "m1" /\ r.direction = "buy"
                         /\ r.price = Rat(3, 10) /\ r.quantity = 10
                         /\ locked[r.userId] = Num(3)
    /\ {r.outcomeId : r \in orders} = {"Yes", "No"}
    /\ executions = <<>>


(***************************************************************************)
(* C29: a resolve interaction, the subcommand or the select menu, from a   *)
(* user whose id differs from the market's oracleUserId changes neither    *)
(* the market's status or winning outcome nor any balance, locked amount,  *)
(* order or position.                                                      *)
(***************************************************************************)
C29_Step ==
    \A u \in Users, m \in Markets :
        oracleUserId[m] # u =>
            /\ ResolveSubcommand(u, m)
               => UNCHANGED <<status, winningOutcomeId, balance, locked,
                              orders, positions>>
            /\ \A w \in OutcomeInputs(m) :
                  HandleMarketResolveSelect(u, m, w)
                  => UNCHANGED <<status, winningOutcomeId, balance, locked,
                                 orders, positions>>

C29_OnlyOracleResolves == [][C29_Step]_vars

\* the select menu has just refused a user while every market is open and
\* one of them holds an order and a position
C29_Witness ==
    /\ last.op = "handleMarketResolveSelect"
    /\ last.result = "You are not the oracle for this market."
    /\ \A m \in Markets : status[m] = "open"
    /\ \E m \in Markets :
          /\ \E r \in orders : r.marketId = m
          /\ \E p \in positions : p.marketId = m


(***************************************************************************)
(* C30: no order is over-filled.  Every persisted order has a quantity of  *)
(* at least 1 and no step raises it; the executions a step records fill,   *)
(* for every user and market, an order that was persisted before the step, *)
(* by no more than the quantity it had left; an order filled to 0 is       *)
(* deleted in that step and one filled in part rests with the difference.  *)
(***************************************************************************)
RECURSIVE C30_FilledIn(_, _)
C30_FilledIn(participants, u) ==
    IF participants = <<>> THEN 0
    ELSE (IF Head(participants).userId = u
          THEN RAbs(Head(participants).quantity[1]) ELSE 0)
         + C30_FilledIn(Tail(participants), u)

RECURSIVE C30_Filled(_, _, _)
C30_Filled(execs, u, m) ==
    IF execs = <<>> THEN 0
    ELSE (IF Head(execs).marketId = m
          THEN C30_FilledIn(Head(execs).participants, u) ELSE 0)
         + C30_Filled(Tail(execs), u, m)

C30_Recorded == SubSeq(executions', Len(executions) + 1, Len(executions'))

C30_FillWithin(u, m, filled) ==
    filled > 0 =>
        \E r \in orders :
            /\ r.userId = u /\ r.marketId = m
            /\ filled <= r.quantity
            /\ filled = r.quantity => \A x \in orders' : x.id # r.id
            /\ filled < r.quantity
               => \E x \in orders' : x.id = r.id /\ x.quantity = r.quantity - filled

C30_Step ==
    /\ \A r \in orders' : r.quantity >= 1
    /\ \A r \in orders, x \in orders' : x.id = r.id => x.quantity <= r.quantity
    /\ Len(executions') >= Len(executions)
    /\ \A u \in Users, m \in Markets :
          C30_FillWithin(u, m, C30_Filled(C30_Recorded, u, m))

C30_NoOverFill == [][C30_Step]_vars


(***************************************************************************)
(* C31: no update of a users row is lost.  With the two transactions on    *)
(* different markets, every step that ends a transaction moves each        *)
(* user's balance and locked from their committed values by the deltas of  *)
(* that transaction alone, and no other step moves them: the final values  *)
(* are the initial ones plus the deltas of every committed transaction.    *)
(***************************************************************************)
RECURSIVE C31_SumOf(_, _, _)
C31_SumOf(updates, field, u) ==
    IF updates = <<>> THEN Zero
    ELSE RAdd(IF Head(updates).userId = u THEN Head(updates)[field] ELSE Zero,
              C31_SumOf(Tail(updates), field, u))

RECURSIVE C31_Payouts(_, _, _)
C31_Payouts(rows, w, u) ==
    IF rows = <<>> THEN Zero
    ELSE RAdd(IF Head(rows).userId = u /\ w \in DOMAIN Head(rows).holdings
                 /\ RLt(Zero, Head(rows).holdings[w])
              THEN Head(rows).holdings[w] ELSE Zero,
              C31_Payouts(Tail(rows), w, u))

\* the change of locked that transaction r, about to commit, has asked for
C31_LockedDelta(r, u) ==
    IF r.op = "createOrder"
    THEN (IF r.u = u THEN r.escrowAmount ELSE Zero)
    ELSE IF r.op = "cancelOrder"
    THEN (IF r.u = u THEN RNeg(r.order.escrowAmount) ELSE Zero)
    ELSE IF r.op = "executeMarket"
    THEN C31_SumOf(r.matchResult.balanceUpdates, "lockedDelta", u)
    ELSE RNeg(C31_SumOf(r.rOrders, "escrowAmount", u))

\* the change of balance it has asked for
C31_BalanceDelta(r, u) ==
    IF r.op = "executeMarket"
    THEN C31_SumOf(r.matchResult.balanceUpdates, "balanceDelta", u)
    ELSE IF r.op = "resolveMarket" THEN C31_Payouts(r.rPos, r.w, u)
    ELSE Zero

C31_Commits(t) ==
    /\ Running(t)
    /\ txn'[t].pc = "done"
    /\ txn'[t].result = "ok"

C31_Step ==
    ~Setup =>
        \A u \in Users :
            IF \E t \in Txns : C31_Commits(t)
            THEN \A t \in Txns :
                    C31_Commits(t) =>
                        /\ locked'[u] = RAdd(locked[u], C31_LockedDelta(txn[t], u))
                        /\ balance'[u] = RAdd(balance[u], C31_BalanceDelta(txn[t], u))
            ELSE locked'[u] = locked[u] /\ balance'[u] = balance[u]

C31_NoLostUpdate == [][C31_Step]_vars

\* a settlement on m1 that filled alice's order and an admission of alice on
\* m2 have both committed: her locked amount is the escrow of the new order
C31_Witness ==
    /\ txn["t1"].pc = "done" /\ txn["t1"].op = "executeMarket"
    /\ txn["t1"].result = "ok"
    /\ txn["t2"].pc = "done" /\ txn["t2"].op = "createOrder"
    /\ txn["t2"].u = "alice" /\ txn["t2"].result = "ok"
    /\ pre.executions = <<>> /\ executions # <<>>
    /\ \E r \in pre.orders : r.userId = "alice" /\ r.marketId = "m1"
    /\ pre.locked["alice"] = Num(7)
    /\ locked["alice"] = Num(3)
    /\ balance["alice"] # pre.balance["alice"]


(***************************************************************************)
(* C32: generateId never returns the same id twice.  Every id returned is  *)
(* a non-empty string of decimal digits and differs from every id          *)
(* returned by an earlier call, however many calls fall within one         *)
(* millisecond.                                                            *)
(***************************************************************************)
C32_Decimal(id) ==
    /\ Len(id) >= 1
    /\ \A k \in 1..Len(id) : id[k] \in 0..9

C32_UniqueIds ==
    last.op = "generateId" =>
        /\ C32_Decimal(last.result)
        /\ \A k \in 1..Len(issued) : k < sequence => issued[k] # last.result


(***************************************************************************)
(* C33: price ties are broken by age.  Whenever an attempt of the matching *)
(* loop fills an order, no other open order on the same outcome and side   *)
(* at the same price was created before it, in whatever order the rows     *)
(* were returned.                                                          *)
(***************************************************************************)
C33_Filled(ofm, ofm2) ==
    {i \in 1..Len(ofm) : ofm2[i].remainingQuantity < ofm[i].remainingQuantity}

C33_Tied(ofm, i) ==
    {j \in 1..Len(ofm) : /\ j # i
                         /\ ofm[j].remainingQuantity > 0
                         /\ ofm[j].outcomeId = ofm[i].outcomeId
                         /\ ofm[j].direction = ofm[i].direction
                         /\ ofm[j].price = ofm[i].price}

C33_Step ==
    last.op = "executeMatching" /\ last'.op = "executeMatching"
    => \A i \in C33_Filled(last.ms.ofm, last'.ms.ofm) :
          \A j \in C33_Tied(last.ms.ofm, i) :
              last.createdAt[i] < last.createdAt[j]

C33_OldestFirst == [][C33_Step]_vars


(***************************************************************************)
(* C34: when a cancelOrder and an executeMarket on the same market have    *)
(* both committed, the owner's locked amount has gone down by no more      *)
(* than the escrow of the cancelled order, and the cancelled order has     *)
(* not been filled as well.                                                *)
(***************************************************************************)
C34_Cancelled(t) ==
    txn[t].pc = "done" /\ txn[t].op = "cancelOrder" /\ txn[t].result = "ok"

C34_Settled(t) ==
    txn[t].pc = "done" /\ txn[t].op = "executeMarket" /\ txn[t].result = "ok"

C34_EscrowOf(u) ==
    (CHOOSE r \in pre.orders : r.userId = u /\ r.marketId = "m1").escrowAmount

C34_FilledFor(u) ==
    \E k \in 1..Len(executions) :
        \E j \in 1..Len(executions[k].participants) :
            executions[k].participants[j].userId = u

C34_UnlockedOnce ==
    \A tc, te \in Txns :
        C34_Cancelled(tc) /\ C34_Settled(te)
        => /\ RLe(RSub(pre.locked[txn[tc].u], locked[txn[tc].u]),
                  C34_EscrowOf(txn[tc].u))
           /\ ~C34_FilledFor(txn[tc].u)


(***************************************************************************)
(* C35: when a createOrder and a resolveMarket on the same market have     *)
(* both ended, the market, once resolved, holds no order and no user has   *)
(* escrow locked for an order of it.                                       *)
(***************************************************************************)
C35_BothEnded ==
    /\ \A t \in Txns : txn[t].pc = "done"
    /\ \E t \in Txns : txn[t].op = "createOrder"
    /\ \E t \in Txns : txn[t].op = "resolveMarket"

C35_ResolvedMarketEmpty ==
    C35_BothEnded /\ status["m1"] = "resolved"
    => /\ ~\E r \in orders : r.marketId = "m1"
       /\ \A u \in Users : locked[u] = Zero


(***************************************************************************)
(* C36: when executeMatching returns, the remaining book is uncrossed.     *)
(* On every outcome the highest remaining bid is strictly below the        *)
(* lowest remaining ask, the highest remaining bids of the outcomes sum    *)
(* to strictly less than 1, and executeMatching on the remaining orders    *)
(* produces no execution.                                                  *)
(***************************************************************************)
C36_Open(ofm, o, dir) ==
    {i \in 1..Len(ofm) : /\ ofm[i].remainingQuantity > 0
                         /\ ofm[i].outcomeId = o
                         /\ ofm[i].direction = dir}

C36_HighestBid(ofm, o) ==
    IF C36_Open(ofm, o, "buy") = {} THEN Zero
    ELSE ofm[CHOOSE i \in C36_Open(ofm, o, "buy") :
                 \A j \in C36_Open(ofm, o, "buy") :
                     RLe(ofm[j].price, ofm[i].price)].price

RECURSIVE C36_SumHighestBids(_, _)
C36_SumHighestBids(ofm, outcomeIds) ==
    IF outcomeIds = <<>> THEN Zero
    ELSE RAdd(C36_HighestBid(ofm, Head(outcomeIds)),
              C36_SumHighestBids(ofm, Tail(outcomeIds)))

\* the rows as executeMarket leaves them: the filled ones deleted, the
\* others with their remaining quantity
RECURSIVE C36_Remaining(_, _)
C36_Remaining(rows, ofm) ==
    IF rows = <<>> THEN <<>>
    ELSE (IF ofm[1].remainingQuantity > 0
          THEN <<[Head(rows) EXCEPT !.quantity = ofm[1].remainingQuantity]>>
          ELSE <<>>)
         \o C36_Remaining(Tail(rows), Tail(ofm))

C36_Uncrossed(ofm, m) ==
    /\ \A o \in SeqRange(OutcomeIds(m)) :
          \A b \in C36_Open(ofm, o, "buy"), s \in C36_Open(ofm, o, "sell") :
              RLt(ofm[b].price, ofm[s].price)
    /\ RLt(C36_SumHighestBids(ofm, OutcomeIds(m)), One)

C36_BookUncrossed ==
    Matching("returned") =>
        /\ C36_Uncrossed(last.ms.ofm, last.marketId)
        /\ executeMatching(C36_Remaining(last.orders, last.ms.ofm),
                           OutcomeIds(last.marketId), last.marketId).executions
           = <<>>

\* a call has returned after an execution with a bid and a higher ask left
\* open on one outcome
C36_Witness ==
    /\ Matching("returned")
    /\ last.result.executions # <<>>
    /\ \E o \in SeqRange(OutcomeIds(last.marketId)) :
          /\ C36_Open(last.ms.ofm, o, "buy") # {}
          /\ C36_Open(last.ms.ofm, o, "sell") # {}

(***************************************************************************)
(* database: addReaction and removeReaction, the currency earned by        *)
(* reactions.  The users row of an author is made by the first reaction    *)
(* with balance 1 and locked 0; a user without a row has balance 0 and     *)
(* locked 0.  events/reactionAdd.ts passes the author of the message as    *)
(* authorId and skips the reactions of an author to their own message.     *)
(***************************************************************************)
MessageIds == {"msg1", "msg2", "msg3"}

\* message.author.id
AuthorOf == [msg \in MessageIds |-> IF msg = "msg1" THEN "alice" ELSE "bob"]

Emojis == {"e1", "e2"}

\* the unique key of the reactions table
SameReaction(r, messageId, reactorId, emoji) ==
    r.messageId = messageId /\ r.reactorId = reactorId /\ r.emoji = emoji

addReaction(messageId, reactorId, authorId, emoji) ==
    LET conflict == \E r \in reactions : SameReaction(r, messageId, reactorId, emoji)
    IN  /\ reactions' = IF conflict THEN reactions
                        ELSE reactions \cup
                               {[messageId |-> messageId, reactorId |-> reactorId,
                                 authorId |-> authorId, emoji |-> emoji]}
        /\ balance' = IF conflict THEN balance
                      ELSE [balance EXCEPT ![authorId] = RAdd(@, One)]
        /\ last' = [op |-> "addReaction", result |-> ~conflict]
        /\ UNCHANGED <<locked, status, winningOutcomeId, orders, positions,
                       executions, nOrders, txn, pre, sequence, now, issued,
                       semaphore, channels>>

\* UPDATE users SET balance = balance - 1 WHERE ... AND balance > 0
DecrementBalance(b) == IF RLt(Zero, b) THEN RSub(b, One) ELSE b

removeReaction(messageId, reactorId, emoji) ==
    LET found == {r \in reactions : SameReaction(r, messageId, reactorId, emoji)}
    IN  /\ IF found = {}
           THEN /\ last' = [op |-> "removeReaction", result |-> FALSE]
                /\ UNCHANGED <<reactions, balance>>
           ELSE \E reaction \in found :
                   /\ reactions' = reactions \ found
                   /\ balance' = [balance EXCEPT
                                     ![reaction.authorId] = DecrementBalance(@)]
                   /\ last' = [op |-> "removeReaction", result |-> TRUE,
                               authorId |-> reaction.authorId]
        /\ UNCHANGED <<locked, status, winningOutcomeId, orders, positions,
                       executions, nOrders, txn, pre, sequence, now, issued,
                       semaphore, channels>>

\* nobody has earned anything yet
ReactInit ==
    /\ balance = [u \in Users |-> Zero]
    /\ locked = [u \in Users |-> Zero]
    /\ status = [m \in Markets |-> "open"]
    /\ winningOutcomeId = [m \in Markets |-> ""]
    /\ orders = {}
    /\ positions = {}
    /\ executions = <<>>
    /\ nOrders = 0
    /\ last = [op |-> "init", result |-> "ok"]
    /\ txn = [t \in Txns |-> Idle]
    /\ pre = Db
    /\ ApartInit

\* reactions come and go while the users trade in market m1
ReactNext ==
    \/ \E messageId \in MessageIds, reactorId \in Users, emoji \in Emojis :
          /\ reactorId # AuthorOf[messageId]
          /\ addReaction(messageId, reactorId, AuthorOf[messageId], emoji)
    \/ \E messageId \in MessageIds, reactorId \in Users, emoji \in Emojis :
          removeReaction(messageId, reactorId, emoji)
    \/ \E u \in Users : \E o \in SeqRange(OutcomeIds("m1")) :
          \E d \in Directions, q \in Qtys, p \in Prices :
             CreateOrder(u, "m1", o, d, q, p) /\ UNCHANGED <<txn, pre>>
       /\ UNCHANGED apart
    \/ ExecuteMarket("m1") /\ UNCHANGED <<txn, pre>>
       /\ UNCHANGED apart

SpecReact == ReactInit /\ [][ReactNext]_vars

\* C37: removeReaction never lowers the balance of the author below 0 or
\* below the amount the author has locked
C37_Lowered ==
    /\ last'.op = "removeReaction"
    /\ \E u \in Users : balance'[u] # balance[u]

C37_Step ==
    C37_Lowered =>
        \A u \in Users :
            balance'[u] # balance[u] =>
                /\ RLe(Zero, balance'[u])
                /\ RLe(locked'[u], balance'[u])

C37_RemovalKeepsEscrow == [][C37_Step]_vars

\* C37, the part on 0 alone: the balance after a removal is not negative
C37_NonNegStep ==
    C37_Lowered => \A u \in Users : RLe(Zero, balance'[u])

C37_RemovalNotNegative == [][C37_NonNegStep]_vars

(***************************************************************************)
(* commands/backfill: Semaphore and the channel tasks of execute.          *)
(* accessibleChannels.map calls the async callback of every channel in     *)
(* turn, and each call runs to its first await, so the acquire of every    *)
(* channel has been called, in array order, before any task goes on.  An   *)
(* acquire that finds a free slot returns a resolved promise; the others   *)
(* queue their resolve.  A task whose promise is resolved goes on to       *)
(* processChannel at a later turn of the event loop; when processChannel   *)
(* returns or throws, the finally block calls release in the same turn.    *)
(* channels[c] is "none" for a channel that is not in the run, "queued"    *)
(* while its resolve is in the queue, "acquired" once its promise is       *)
(* resolved, "processing" inside processChannel, and "completed" or        *)
(* "error" after its release.  The queue holds the channels whose resolve  *)
(* it holds.                                                               *)
(***************************************************************************)
\* setMinValue(1), setMaxValue(5)
MinConcurrency == 1

MaxConcurrency == 5

\* the arrays accessibleChannels can be: channels of the guild, none twice
ChannelLists ==
    {chs \in UNION {[1..n -> Channels] : n \in 0..Cardinality(Channels)} :
        \A i, j \in 1..Len(chs) : i # j => chs[i] # chs[j]}

\* new Semaphore(concurrency)
NewSemaphore(concurrency) ==
    [concurrency |-> concurrency, running |-> 0, queue |-> <<>>]

\* Semaphore.acquire with running++ whatever running is
acquireUnbounded(sem, c) == [sem EXCEPT !.running = @ + 1]

\* Semaphore.acquire called by the task of channel c
acquire(sem, c) ==
    IF sem.running < sem.concurrency
    THEN [sem EXCEPT !.running = @ + 1]
    ELSE [sem EXCEPT !.queue = Append(@, c)]

\* Semaphore.release
release(sem) ==
    LET decremented == [sem EXCEPT !.running = @ - 1]
    IN  IF decremented.queue # <<>>
        THEN [decremented EXCEPT !.running = @ + 1, !.queue = Tail(@)]
        ELSE decremented

\* the semaphore after the acquire of chs[1], chs[2], ... in turn
RECURSIVE AcquireAll(_, _)
AcquireAll(sem, chs) ==
    IF chs = <<>> THEN sem ELSE AcquireAll(acquire(sem, Head(chs)), Tail(chs))

\* execute, from new Semaphore to await Promise.all
StartBackfill(concurrency, accessibleChannels) ==
    LET sem == AcquireAll(NewSemaphore(concurrency), accessibleChannels)
    IN  /\ semaphore.concurrency = 0
        /\ semaphore' = sem
        /\ channels' = [c \in Channels |->
                          IF c \in SeqRange(sem.queue) THEN "queued"
                          ELSE IF c \in SeqRange(accessibleChannels) THEN "acquired"
                          ELSE "none"]
        /\ UNCHANGED <<balance, locked, status, winningOutcomeId, orders,
                       positions, executions, nOrders, last, txn, pre,
                       reactions, sequence, now, issued>>

\* the task goes on after await semaphore.acquire()
EnterProcessChannel(c) ==
    /\ channels[c] = "acquired"
    /\ channels' = [channels EXCEPT ![c] = "processing"]
    /\ UNCHANGED <<balance, locked, status, winningOutcomeId, orders,
                   positions, executions, nOrders, last, txn, pre, reactions,
                   sequence, now, issued, semaphore>>

\* the channels after the task of c ended with outcome and called release
AfterRelease(c, outcome) ==
    [d \in Channels |->
        IF d = c THEN outcome
        ELSE IF semaphore.queue # <<>> /\ d = Head(semaphore.queue) THEN "acquired"
        ELSE channels[d]]

\* processChannel returns (completed or skipped); finally: release
ChannelCompletes(c) ==
    /\ channels[c] = "processing"
    /\ semaphore' = release(semaphore)
    /\ channels' = AfterRelease(c, "completed")
    /\ UNCHANGED <<balance, locked, status, winningOutcomeId, orders,
                   positions, executions, nOrders, last, txn, pre, reactions,
                   sequence, now, issued>>

\* processChannel throws; catch, finally: release
ChannelFails(c) ==
    /\ channels[c] = "processing"
    /\ semaphore' = release(semaphore)
    /\ channels' = AfterRelease(c, "error")
    /\ UNCHANGED <<balance, locked, status, winningOutcomeId, orders,
                   positions, executions, nOrders, last, txn, pre, reactions,
                   sequence, now, issued>>

BackfillNext ==
    \/ \E concurrency \in MinConcurrency..MaxConcurrency :
          \E accessibleChannels \in ChannelLists :
             StartBackfill(concurrency, accessibleChannels)
    \/ \E c \in Channels : EnterProcessChannel(c)
    \/ \E c \in Channels : ChannelCompletes(c)
    \/ \E c \in Channels : ChannelFails(c)

SpecBackfill == Init /\ [][BackfillNext]_vars

\* the tasks that have acquired the semaphore and not yet released it
C38_Holders == {c \in Channels : channels[c] \in {"acquired", "processing"}}

\* C38: during a backfill run the number of channel tasks that have acquired
\* the semaphore and not yet released it never exceeds the concurrency of
\* the run, however the tasks complete and fail
C38_HoldersBounded == Cardinality(C38_Holders) <= semaphore.concurrency

\* the running counter of the semaphore is the number of these tasks
C38_RunningCountsHolders == semaphore.running = Cardinality(C38_Holders)

\* a task has completed, another has failed, every slot is taken and a task
\* is still waiting in the queue
C38_Witness ==
    /\ \E c \in Channels : channels[c] = "completed"
    /\ \E c \in Channels : channels[c] = "error"
    /\ Cardinality(C38_Holders) = semaphore.concurrency
    /\ semaphore.queue # <<>>

====
